---- MODULE Spec2Model ----
(***************************************************************************)
(* LumiTime / subtuber-services: the live-state watcher, the pipeline      *)
(* supervisor, the hot-moment detector, chat ingestion, the credential     *)
(* holders, the tracked-streamers store, the clip and subtitle stage, the  *)
(* analysis endpoint and the YouTube live probe, modelled from the Go      *)
(* sources.                                                                *)
(*                                                                         *)
(* The state machines share the variable list.  Each specification drives  *)
(* one of them and leaves the variables of the others at their initial     *)
(* values:                                                                 *)
(*   SpecWatch  one watcher loop (Twitch or YouTube) probing the roster    *)
(*   SpecSup    concurrent supervisor tasks of one streamer                *)
(*   SpecDet    the detector applied to every small comment list           *)
(*   SpecScen   the detector applied to full-size comment lists            *)
(*   SpecIng    the download of one broadcast's chat                       *)
(*   SpecKeys   requests through the YouTube API key pool                  *)
(*   SpecTok    concurrent callers of the Twitch token check               *)
(*   SpecStore  reaper, subscribe requests and watchers on the store       *)
(*   SpecLocal  one supervisor task beside one watcher pass                *)
(*   SpecClip   the clip loop over the hot moments of one analysis         *)
(*   SpecAsr    one run of the speech-recognition client (SpecAsrFair:     *)
(*              the same with weak fairness of its steps)                  *)
(*   SpecApi    one request to the analysis endpoint                       *)
(*   SpecProbe  successive YouTube live probes of one channel              *)
(*   SpecMrg    the merge pass applied to arbitrary candidate peaks        *)
(*   SpecChk    the transcript chunker applied to every small text         *)
(*   SpecConc   the periodic and a forced watcher pass on one streamer     *)
(*   SpecPool   concurrent requests sharing the YouTube key pool           *)
(***************************************************************************)
EXTENDS Integers, Sequences, FiniteSets, TLC

VARIABLES
    \* ---- live-state watcher ----
    platform,   \* the watcher this behaviour follows: "twitch" or "youtube"
    wpc,        \* position of the monitor loop: "sleep" or "pass"
    widx,       \* index of the next streamer in the pass's copied list
    isLive,     \* stored status: streamerStatus[id].isLive / channelStatus[id].IsLive
    exists,     \* whether the status map holds an entry for the streamer
    upstream,   \* per streamer, what the platform answered to each probe so far
    emits,      \* per streamer, per probe: was a supervisor goroutine spawned
    \* ---- pipeline supervisor ----
    clock,      \* wall clock in seconds (time.Now(), used in chat file names)
    chatFiles,  \* ./chat_logs: the set of chat files, each [vid, ts]
    analysisFiles, \* video ids with an analysis file of the default parameters
    clipFiles,  \* <<video id, k>>: the clip of the k-th hot moment exists
    ingested,   \* per video id, how many ingestions ended in a written chat file
    task,       \* per supervisor goroutine, its local state
    \* ---- hot-moment detector ----
    scen,       \* which family the comment list was drawn from
    comments,   \* the offsets of the comments handed to the detector
    params,     \* the PeakDetectionParams handed to the detector
    dpc,        \* "ready" before the call, "done" after it, "idle" if unused
    result,     \* what the call returned: hot moments and the time series
    \* ---- chat ingestion ----
    chat,       \* the upstream chat replay: the offsets of its comments
    filter,     \* the optional start / end offsets of the request (-1: none)
    ing,        \* the local state of one ingestion and what it left behind
    \* ---- credential pools ----
    keys,       \* the YouTube key pool, its cursor and the request in progress
    tok,        \* the Twitch token, the requests sent for it and its callers
    \* ---- tracked-streamers store ----
    roster,     \* Streamers of the cached TrackedStreamers object (the ids)
    mon,        \* per watcher: its streamer list, its status map, its probes
    cli,        \* the reaper, the subscribe requests, the subscriber counts
    \* ---- clip extraction, speech recognition, analysis endpoint ----
    clip,       \* one call of downloadHotMomentClips and its output directory
    asr,        \* one BcutASR.Run: its position and the requests it has sent
    api,        \* the analysis files of one video and one GetAnalysisResult call
    probe,      \* one CheckLiveStatusByChannelID call and what it returned
    \* ---- pure functions applied to drawn inputs ----
    mrg,        \* one call of mergeCloseHotMoments: its input and what it returned
    chk,        \* one call of chunkText: its input and what it returned
    \* ---- concurrent status passes ----
    conc,       \* the periodic and the forced pass checking one streamer
    \* ---- concurrent use of the YouTube key pool ----
    pool        \* the key cursor and the requests of the tasks sharing it

watchVars == <<platform, wpc, widx, isLive, exists, upstream, emits>>

supVars == <<clock, chatFiles, analysisFiles, clipFiles, ingested, task>>

detVars == <<scen, comments, params, dpc, result>>

ingVars == <<chat, filter, ing>>

vars == <<platform, wpc, widx, isLive, exists, upstream, emits,
          clock, chatFiles, analysisFiles, clipFiles, ingested, task,
          scen, comments, params, dpc, result,
          chat, filter, ing,
          keys, tok,
          roster, mon, cli,
          clip, asr, api, probe,
          mrg, chk, conc, pool>>

storeVars == <<roster, mon, cli>>

auxVars == <<mrg, chk, conc, pool>>

mediaVars == <<clip, asr, api, probe, auxVars>>

\* what the steps of one machine leave alone
notWatch == <<supVars, detVars, ingVars, keys, tok, storeVars, mediaVars>>

notSup == <<watchVars, detVars, ingVars, keys, tok, storeVars, mediaVars>>

notDet == <<watchVars, supVars, ingVars, keys, tok, storeVars, mediaVars>>

notIng == <<watchVars, supVars, detVars, keys, tok, storeVars, mediaVars>>

notKeys == <<watchVars, supVars, detVars, ingVars, tok, storeVars, mediaVars>>

notTok == <<watchVars, supVars, detVars, ingVars, keys, storeVars, mediaVars>>

notStore == <<watchVars, supVars, detVars, ingVars, keys, tok, mediaVars>>

core == <<watchVars, supVars, detVars, ingVars, keys, tok, storeVars>>

notClip == <<core, asr, api, probe, auxVars>>

notAsr == <<core, clip, api, probe, auxVars>>

notApi == <<core, clip, asr, probe, auxVars>>

notProbe == <<core, clip, asr, api, auxVars>>

notMrg == <<core, clip, asr, api, probe, chk, conc, pool>>

notChk == <<core, clip, asr, api, probe, mrg, conc, pool>>

notConc == <<core, clip, asr, api, probe, mrg, chk, pool>>

notPool == <<core, clip, asr, api, probe, mrg, chk, conc>>

----------------------------------------------------------------------------
(* Bounds *)

MaxProbes == 4

MaxClock == 1

MaxMoments == 1

----------------------------------------------------------------------------
(* Platforms and roster *)

Platforms == {"twitch", "youtube"}

\* tm.streamers / ym.channels as loaded from the tracked-streamers store
Roster == <<"s1", "s2">>

Streamers == {Roster[i] : i \in DOMAIN Roster}

\* what the detector returns for an empty comment list
EmptyResult == [hotMoments |-> <<>>, density |-> <<>>, isPeak |-> <<>>]

\* no detector call in this behaviour
DetIdle ==
    /\ scen = [name |-> "none", v |-> 0]
    /\ comments = <<>>
    /\ params = [windowsLen |-> 0, thr |-> 0, searchRange |-> 0]
    /\ dpc = "idle"
    /\ result = EmptyResult

\* no ingestion in this behaviour
IngIdle ==
    /\ chat = <<>>
    /\ filter = [start |-> -1, stop |-> -1]
    /\ ing = [pc |-> "idle"]

\* no credential in use in this behaviour
CredIdle ==
    /\ keys = [pc |-> "idle"]
    /\ tok = [pc |-> "idle"]

\* the store is not used in this behaviour
StoreIdle ==
    /\ roster = <<>>
    /\ mon = [pc |-> "idle"]
    /\ cli = [pc |-> "idle"]

\* no clip loop, recognition run, analysis request or live probe in this
\* behaviour
AuxIdle ==
    /\ mrg = [pc |-> "idle"]
    /\ chk = [pc |-> "idle"]
    /\ conc = [pc |-> "idle"]
    /\ pool = [pc |-> "idle"]

MediaIdle ==
    /\ clip = [pc |-> "idle"]
    /\ asr = [pc |-> "idle"]
    /\ api = [pc |-> "idle"]
    /\ probe = [pc |-> "idle"]
    /\ AuxIdle

----------------------------------------------------------------------------
(* Pipeline supervisor: GetVideoCommentsForStreamer (Twitch) and           *)
(* ProcessRecentVOD (YouTube), one goroutine per trigger: the watcher's     *)
(* live->offline edge, a forced check-now pass or a subscribe request all  *)
(* start the same function                                                 *)

\* the supervisor goroutines that may be alive at the same time
Tasks == {"t1", "t2"}

Vids == {"v1", "v2"}

\* what the platform may return as the streamer's recent archives, most
\* recent first
VodLists == {<<>>, <<"v1">>, <<"v2">>, <<"v2", "v1">>}

\* kinds of outbound calls
CallKinds == {"list", "chat", "rpc", "clip", "asr", "llm"}

IdleTask ==
    [pc |-> "idle", vids |-> <<>>, i |-> 1, fresh |-> <<>>,
     ci |-> 1, mi |-> 1, ts |-> 0, calls |-> {}, wrote |-> FALSE,
     seen |-> 0, allProcessed |-> TRUE, tried |-> {}, failed |-> {},
     log |-> <<>>]

SupIdle ==
    /\ clock = 0
    /\ chatFiles = {}
    /\ analysisFiles = {}
    /\ clipFiles = {}
    /\ ingested = [v \in Vids |-> 0]
    /\ task = [t \in Tasks |-> IdleTask]

IsChatAlreadyDownloaded_Never(files, vid) == FALSE

\* isChatAlreadyDownloaded / isVODAlreadyProcessed: some file of ./chat_logs
\* carries the video id in its name
IsChatAlreadyDownloaded(files, vid) == \E f \in files : f.vid = vid

\* the store holds a chat file of the video
HasChatFile(vid) == \E f \in chatFiles : f.vid = vid

\* position after the video loop body: next video, or the clip phase
AfterVideo(tk) ==
    IF platform = "twitch" /\ tk.i < Len(tk.vids)
    THEN [tk EXCEPT !.pc = "check", !.i = tk.i + 1]
    ELSE IF platform = "twitch" /\ tk.fresh # <<>>
    THEN [tk EXCEPT !.pc = "clips", !.i = tk.i + 1, !.ci = 1, !.mi = 1]
    ELSE [tk EXCEPT !.pc = "done", !.i = tk.i + 1]

\* the goroutine is started
Spawn(t) ==
    /\ task[t].pc = "idle"
    /\ task' = [task EXCEPT ![t] = [@ EXCEPT !.pc = "list"]]
    /\ UNCHANGED <<clock, chatFiles, analysisFiles, clipFiles, ingested>>
    /\ UNCHANGED notSup

\* getVideos: the "list recent VODs" probe.  An error or an empty list ends
\* the task.  YouTube keeps only the most recent live VOD of the list.
ListVods(t, ok, lst) ==
    /\ task[t].pc = "list"
    /\ LET tk == [task[t] EXCEPT !.calls = @ \cup {"list"}]
           kept == IF platform = "youtube" /\ lst # <<>> THEN <<lst[1]>> ELSE lst
       IN  task' = [task EXCEPT ![t] =
                IF ~ok \/ lst = <<>>
                THEN [tk EXCEPT !.pc = "done"]
                ELSE [tk EXCEPT !.pc = "check", !.vids = kept, !.i = 1]]
    /\ UNCHANGED <<clock, chatFiles, analysisFiles, clipFiles, ingested>>
    /\ UNCHANGED notSup

\* the presence check of the loop body
CheckVod(t) ==
    /\ task[t].pc = "check"
    /\ LET vid == task[t].vids[task[t].i]
           tk == [task[t] EXCEPT !.seen = @ + 1,
                                 !.allProcessed = @ /\ HasChatFile(vid)]
       IN  task' = [task EXCEPT ![t] =
                IF IsChatAlreadyDownloaded(chatFiles, vid)
                THEN AfterVideo(tk)
                \* YouTube builds the file name before the download
                ELSE [tk EXCEPT !.pc = "download", !.ts = clock]]
    /\ UNCHANGED <<clock, chatFiles, analysisFiles, clipFiles, ingested>>
    /\ UNCHANGED notSup

\* downloadChatComments / DownloadChatsData: the chat ingestion
DownloadChat(t, ok) ==
    /\ task[t].pc = "download"
    /\ LET vid == task[t].vids[task[t].i]
           tk == [task[t] EXCEPT !.calls = @ \cup {"chat"},
                                 !.log = Append(@, <<"ingest", vid>>)]
       IN  task' = [task EXCEPT ![t] =
                IF ok THEN [tk EXCEPT !.pc = "save"] ELSE AfterVideo(tk)]
    /\ UNCHANGED <<clock, chatFiles, analysisFiles, clipFiles, ingested>>
    /\ UNCHANGED notSup

\* the chat file is written (a failure leaves the loop body), the detector
\* runs with the default parameters and finds n hot moments, the analysis
\* file is written (a failure is logged and the body goes on), the broadcast
\* is reported to the RPC service and joins the new analysis results
SaveChat(t, writeOk, analysisOk, n) ==
    /\ task[t].pc = "save"
    /\ LET vid == task[t].vids[task[t].i]
           stamp == IF platform = "twitch" THEN clock ELSE task[t].ts
           tk == [task[t] EXCEPT !.wrote = TRUE,
                                 !.calls = @ \cup {"rpc"},
                                 !.fresh = Append(@, <<vid, n>>),
                                 \* the 2 s sleep closes the loop body
                                 !.log = @ \o <<<<"detect", vid>>, <<"sleep2">>>>]
       IN  IF writeOk
           THEN /\ chatFiles' = chatFiles \cup {[vid |-> vid, ts |-> stamp]}
                /\ analysisFiles' = IF analysisOk THEN analysisFiles \cup {vid}
                                    ELSE analysisFiles
                /\ ingested' = [ingested EXCEPT ![vid] = @ + 1]
                /\ task' = [task EXCEPT ![t] = AfterVideo(tk)]
           ELSE /\ task' = [task EXCEPT ![t] = AfterVideo(task[t])]
                /\ UNCHANGED <<chatFiles, analysisFiles, ingested>>
    /\ UNCHANGED <<clock, clipFiles>>
    /\ UNCHANGED notSup

\* a failing moment leaves the loop body with `continue`
ClipNext_Return(tk, more, failed) ==
    IF failed THEN [tk EXCEPT !.pc = "done"]
    ELSE [tk EXCEPT !.mi = tk.mi + 1]

\* the moment loop of downloadHotMomentClips goes on to the next moment
\* whatever the outcome of this one
ClipNext(tk, more, failed) == [tk EXCEPT !.mi = tk.mi + 1]

\* downloadHotMomentClips, one moment of one new analysis result: the clip
\* download, then (with a subtitle) the summary
ClipMoment(t, outcome) ==
    /\ task[t].pc = "clips"
    /\ LET tk == task[t]
           vid == tk.fresh[tk.ci][1]
           n == tk.fresh[tk.ci][2]
           more == tk.ci < Len(tk.fresh)
           made == IF outcome = "fail" THEN {"clip"}
                   ELSE IF outcome = "nosrt" THEN {"clip", "asr"}
                   ELSE {"clip", "asr", "llm"}
           events == <<<<"clip", vid, tk.mi>>>>
                     \o (IF outcome = "ok" THEN <<<<"summary", vid, tk.mi>>>>
                         ELSE <<>>)
                     \* the 10 s sleep closes the loop body
                     \o (IF outcome # "fail" THEN <<<<"sleep10">>>> ELSE <<>>)
           tried == [tk EXCEPT !.calls = @ \cup made, !.wrote = TRUE,
                               !.log = @ \o events,
                               !.tried = @ \cup {<<vid, tk.mi>>},
                               !.failed = IF outcome = "fail"
                                          THEN @ \cup {<<vid, tk.mi>>}
                                          ELSE @]
       IN  /\ task' = [task EXCEPT ![t] =
                IF tk.mi > n
                THEN (IF more THEN [tk EXCEPT !.ci = tk.ci + 1, !.mi = 1]
                      ELSE [tk EXCEPT !.pc = "done"])
                ELSE ClipNext(tried, more, outcome = "fail")]
           /\ clipFiles' = IF tk.mi <= n /\ outcome # "fail"
                           THEN clipFiles \cup {<<vid, tk.mi>>}
                           ELSE clipFiles
    /\ UNCHANGED <<clock, chatFiles, analysisFiles, ingested>>
    /\ UNCHANGED notSup

\* time passes
Tick ==
    /\ clock < MaxClock
    /\ clock' = clock + 1
    /\ UNCHANGED <<chatFiles, analysisFiles, clipFiles, ingested, task>>
    /\ UNCHANGED notSup

WatchIdle ==
    /\ wpc = "sleep"
    /\ widx = 1
    /\ exists = [s \in Streamers |-> platform = "twitch"]
    /\ isLive = [s \in Streamers |-> FALSE]
    /\ upstream = [s \in Streamers |-> <<>>]
    /\ emits = [s \in Streamers |-> <<>>]

InitSup ==
    /\ platform \in Platforms
    /\ WatchIdle
    /\ SupIdle
    /\ DetIdle
    /\ IngIdle
    /\ CredIdle
    /\ StoreIdle
    /\ MediaIdle

NextSup ==
    \/ \E t \in Tasks : Spawn(t)
    \/ \E t \in Tasks, ok \in BOOLEAN, lst \in VodLists : ListVods(t, ok, lst)
    \/ \E t \in Tasks : CheckVod(t)
    \/ \E t \in Tasks, ok \in BOOLEAN : DownloadChat(t, ok)
    \/ \E t \in Tasks, ok \in BOOLEAN, aok \in BOOLEAN, n \in 0..MaxMoments :
          SaveChat(t, ok, aok, n)
    \/ \E t \in Tasks, o \in {"fail", "nosrt", "ok"} : ClipMoment(t, o)
    \/ Tick

SpecSup == InitSup /\ [][NextSup]_vars

----------------------------------------------------------------------------
(* Hot-moment detector: FindHotCommentsWithParams                          *)
(*                                                                         *)
(* A comment is represented by its ContentOffsetSeconds, a non-negative    *)
(* number of 1/Scale seconds.  Densities are sums of counts, so every      *)
(* float64 of the detector holds an exact integer.  The percentile thr is  *)
(* kept in hundredths; floor(T * thr) is exact for the values used here.   *)

Scale == 10

DefaultWindowsLen == 120

DefaultThrPct == 90

DefaultSearchRange == 60

\* defaultPeakParams of the supervisor and of the analysis endpoint
defaultPeakParams == [windowsLen |-> 420, thr |-> 90, searchRange |-> 210]

\* int(math.Floor(offset)) and int(math.Ceil(offset))
Floor(o) == o \div Scale

Ceil(o) == (o + Scale - 1) \div Scale

\* the largest element of a non-empty finite set of numbers
SetMax(S) == CHOOSE v \in S : \A w \in S : w <= v

\* "set default parameters": non-positive window or range, thr outside (0, 1]
WithDefaults(ps) ==
    [windowsLen |-> IF ps.windowsLen <= 0 THEN DefaultWindowsLen
                    ELSE ps.windowsLen,
     thr |-> IF ps.thr <= 0 \/ ps.thr > 100 THEN DefaultThrPct
             ELSE ps.thr,
     searchRange |-> IF ps.searchRange <= 0 THEN DefaultSearchRange
                     ELSE ps.searchRange]

\* maxOffset starts at 0.0; totalSeconds = ceil(maxOffset) + 1
TotalSeconds(offs) ==
    Ceil(SetMax({0} \cup {offs[k] : k \in DOMAIN offs})) + 1

\* a slice of length n holding f[0] .. f[n-1], every element computed once
RECURSIVE Values(_, _, _)
Values(f, lo, hi) ==
    IF lo > hi THEN <<>>
    ELSE IF lo = hi THEN <<f[lo]>>
    ELSE LET mid == (lo + hi) \div 2
         IN  Values(f, lo, mid) \o Values(f, mid + 1, hi)

Slice(f, n) ==
    LET t == Values(f, 0, n - 1)
    IN  [i \in 0..(n - 1) |-> t[i + 1]]

\* commentCountPerSecond: comments per floored second, indices outside
\* [0, totalSeconds) dropped
CommentCountPerSecond(offs) ==
    LET T == TotalSeconds(offs)
        idx == Values([k \in DOMAIN offs |-> Floor(offs[k])], 1, Len(offs))
        hit == {idx[k] : k \in DOMAIN idx}
    IN  Slice([i \in 0..(T - 1) |->
                  IF i \in hit
                  THEN Cardinality({k \in DOMAIN idx : idx[k] = i})
                  ELSE 0], T)

KernelOffset_Zero(m) == 0

KernelOffset_RoundUp(m) == m \div 2

\* offset := (m - 1) / 2
KernelOffset(m) == (m - 1) \div 2

\* the inner loop of convSame for output index i, kernel indices lo..hi
\* (the sum is split in halves to keep the evaluation shallow)
RECURSIVE ConvSum(_, _, _, _, _, _)
ConvSum(signal, n, m, i, lo, hi) ==
    IF lo > hi THEN 0
    ELSE IF lo = hi
    THEN LET signalIndex == i - KernelOffset(m) + lo
         IN  IF signalIndex >= 0 /\ signalIndex < n THEN signal[signalIndex] ELSE 0
    ELSE LET mid == (lo + hi) \div 2
         IN  ConvSum(signal, n, m, i, lo, mid) + ConvSum(signal, n, m, i, mid + 1, hi)

\* convSame with the all-ones kernel of length m
ConvSame(signal, n, m) ==
    Slice([i \in 0..(n - 1) |-> ConvSum(signal, n, m, i, 0, m - 1)], n)

\* sortedDensity[k] after sort.Float64s: the k-th smallest value (k from 0)
SortedAt(d, n, k) ==
    CHOOSE v \in {d[i] : i \in 0..(n - 1)} :
        /\ Cardinality({i \in 0..(n - 1) : d[i] < v}) <= k
        /\ k < Cardinality({i \in 0..(n - 1) : d[i] <= v})

ThrIndex_Last(n, thr) == n - 1

ThrIndex_First(n, thr) == 0

\* thrIndex = floor(len * thr), clamped to the last index
ThrIndex(n, thr) ==
    LET raw == (n * thr) \div 100
    IN  IF raw >= n THEN n - 1 ELSE raw

ThrDensity(d, n, thr) == SortedAt(d, n, ThrIndex(n, thr))

\* commentDenPad: searchRange zeros, the density, searchRange zeros
PadAt(d, n, r, x) == IF x < r \/ x >= n + r THEN 0 ELSE d[x - r]

\* maxVal over tmpData = commentDenPad[ind-searchRange : ind+searchRange+1]
WindowMax(d, n, r, i) == SetMax({PadAt(d, n, r, x) : x \in i..(i + 2 * r)})

IsPeakAt_NoThreshold(d, n, r, thrDensity, i) == d[i] = WindowMax(d, n, r, i)

IsPeakAt_Strict(d, n, r, thrDensity, i) ==
    /\ d[i] >= thrDensity
    /\ d[i] = WindowMax(d, n, r, i)
    /\ \A j \in 0..(i - 1) : i - j <= r => d[j] < d[i]

\* the body of the peak loop: not below the threshold and equal to the
\* maximum of its window
IsPeakAt(d, n, r, thrDensity, i) ==
    /\ d[i] >= thrDensity
    /\ d[i] = WindowMax(d, n, r, i)

\* findPeakWithParams: (isPeak, commentDensity)
FindPeakWithParams(comment, n, ps) ==
    LET d == ConvSame(comment, n, ps.windowsLen + 1)
        thrDensity == ThrDensity(d, n, ps.thr)
    IN  [density |-> d,
         isPeak |-> Slice([i \in 0..(n - 1) |->
                              IsPeakAt(d, n, ps.searchRange, thrDensity, i)], n)]

\* sort.Slice by OffsetSeconds (equal offsets, which the detector never
\* produces, keep their order here)
SortByOffset(hm) ==
    IF \A k \in 1..(Len(hm) - 1) : hm[k].offset < hm[k + 1].offset
    THEN hm
    ELSE LET rank(k) == Cardinality({j \in DOMAIN hm :
                            \/ hm[j].offset < hm[k].offset
                            \/ hm[j].offset = hm[k].offset /\ j < k}) + 1
         IN  [q \in DOMAIN hm |-> hm[CHOOSE k \in DOMAIN hm : rank(k) = q]]

GroupEnd_HalfRange(hm, r, i) ==
    LET far == {j \in (i + 1)..Len(hm) :
                    hm[j].offset - hm[i].offset > r \div 2}
        stop == {j \in far : \A x \in (i + 1)..(j - 1) : x \notin far}
    IN  IF stop = {} THEN Len(hm) + 1 ELSE CHOOSE j \in stop : TRUE

\* the index at which the inner loop stops: the first j > i that is more
\* than searchRange after hm[i], or the end of the list
GroupEnd(hm, r, i) ==
    LET far == {j \in (i + 1)..Len(hm) :
                    hm[j].offset - hm[i].offset > r}
        stop == {j \in far : \A x \in (i + 1)..(j - 1) : x \notin far}
    IN  IF stop = {} THEN Len(hm) + 1 ELSE CHOOSE j \in stop : TRUE

GroupBest_Anchor(hm, i, j) == i

GroupBest_Last(hm, i, j) ==
    CHOOSE k \in i..(j - 1) :
        /\ \A x \in i..(j - 1) : hm[x].score <= hm[k].score
        /\ \A x \in (k + 1)..(j - 1) : hm[x].score < hm[k].score

\* maxScoreIndex: the first element of the group hm[i..j-1] whose score no
\* later element exceeds strictly
GroupBest(hm, i, j) ==
    CHOOSE k \in i..(j - 1) :
        /\ \A x \in i..(j - 1) : hm[x].score <= hm[k].score
        /\ \A x \in i..(k - 1) : hm[x].score < hm[k].score

RECURSIVE MergeFrom(_, _, _)
MergeFrom(hm, r, i) ==
    IF i > Len(hm) THEN <<>>
    ELSE LET j == GroupEnd(hm, r, i)
         IN  <<hm[GroupBest(hm, i, j)]>> \o MergeFrom(hm, r, j)

MergeCloseHotMoments_Identity(hotMoments, searchRange) == hotMoments

\* mergeCloseHotMoments
MergeCloseHotMoments(hotMoments, searchRange) ==
    IF Len(hotMoments) <= 1 THEN hotMoments
    ELSE MergeFrom(SortByOffset(hotMoments), searchRange, 1)

\* "extract the peak points as hot moments": the peaks of lo..hi in index order
RECURSIVE PeakMoments(_, _, _, _)
PeakMoments(isPeak, d, lo, hi) ==
    IF lo > hi THEN <<>>
    ELSE IF lo = hi
    THEN (IF isPeak[lo] THEN <<[offset |-> lo, score |-> d[lo]]>> ELSE <<>>)
    ELSE LET mid == (lo + hi) \div 2
         IN  PeakMoments(isPeak, d, lo, mid) \o PeakMoments(isPeak, d, mid + 1, hi)

\* FindHotCommentsWithParams: the hot moments and the time series (score and
\* isPeak per second)
FindHotCommentsWithParams(cs, ps) ==
    IF Len(cs) = 0 THEN EmptyResult
    ELSE LET p == WithDefaults(ps)
             n == TotalSeconds(cs)
             pk == FindPeakWithParams(CommentCountPerSecond(cs), n, p)
         IN  [hotMoments |-> MergeCloseHotMoments(
                                 PeakMoments(pk.isPeak, pk.density, 0, n - 1),
                                 p.searchRange),
              density |-> pk.density,
              isPeak |-> pk.isPeak]

----------------------------------------------------------------------------
(* Detector calls *)

MaxSec == 4

MaxLen == 3

MaxWin == 2

MaxRange == 2

MaxShift == 25

MaxSpread == 2

\* offsets on a half-second grid
OffsetChoices == {Scale * s + f : s \in 0..MaxSec, f \in {0, Scale \div 2}}

\* comment lists in stream order (the detector does not depend on the order)
CommentLists ==
    {q \in UNION {[1..n -> OffsetChoices] : n \in 0..MaxLen} :
        \A k \in 1..(Len(q) - 1) : q[k] <= q[k + 1]}

\* thr in hundredths: unset, 0.5, 0.9, 1.0 and an out-of-range 1.5
ThrChoices == {0, 50, 90, 100, 150}

ParamChoices ==
    [windowsLen : 0..MaxWin, thr : ThrChoices, searchRange : 0..MaxRange]

\* n comments spread evenly over [c - h, c + h] seconds
Burst(c, h, n) ==
    [k \in 1..n |-> (c - h) * Scale + (2 * h * Scale * (k - 1)) \div (n - 1)]

\* n comments spread evenly over [0, len) seconds
Uniform(n, len) == [k \in 1..n |-> ((k - 1) * len * Scale) \div n]

\* the comment lists of the acceptance scenarios: a single comment near
\* 100.0 s; one burst over a uniform background; two bursts 100 s apart;
\* two bursts 400 s apart
Scenarios ==
    {[name |-> "single", v |-> Scale * 100 + k * (Scale \div 2)] :
        k \in (0 - MaxShift)..MaxShift}
    \cup {[name |-> "background", v |-> h] : h \in {0, 20}}
    \cup {[name |-> nm, v |-> h] : nm \in {"near", "far"}, h \in 0..MaxSpread}

ScenComments(sc) ==
    CASE sc.name = "single" -> <<sc.v>>
      [] sc.name = "background" -> Uniform(1000, 7200) \o Burst(3600, sc.v, 500)
      [] sc.name = "near" -> Burst(1000, sc.v, 500) \o Burst(1100, sc.v, 500)
      [] sc.name = "far" -> Burst(1000, sc.v, 500) \o Burst(1400, sc.v, 500)

\* one call of FindHotCommentsWithParams
Detect ==
    /\ dpc = "ready"
    /\ result' = FindHotCommentsWithParams(comments, params)
    /\ dpc' = "done"
    /\ UNCHANGED <<scen, comments, params>>
    /\ UNCHANGED notDet

InitDet ==
    /\ scen = [name |-> "small", v |-> 0]
    /\ comments \in CommentLists
    /\ params \in ParamChoices
    /\ dpc = "ready"
    /\ result = EmptyResult
    /\ platform = "twitch"
    /\ WatchIdle
    /\ SupIdle
    /\ IngIdle
    /\ CredIdle
    /\ StoreIdle
    /\ MediaIdle

NextDet == Detect

SpecDet == InitDet /\ [][NextDet]_vars

InitScen ==
    /\ scen \in Scenarios
    /\ comments = ScenComments(scen)
    /\ params = defaultPeakParams
    /\ dpc = "ready"
    /\ result = EmptyResult
    /\ platform = "twitch"
    /\ WatchIdle
    /\ SupIdle
    /\ IngIdle
    /\ CredIdle
    /\ StoreIdle
    /\ MediaIdle

SpecScen == InitScen /\ [][NextDet]_vars

----------------------------------------------------------------------------
(* The merge pass on arbitrary candidate peaks *)

MaxScore == 2

\* candidate peaks: whole-second offsets and scores
PeakChoices == [offset : 0..MaxSec, score : 1..MaxScore]

\* lists of candidate peaks at distinct seconds, in any order
PeakLists ==
    {q \in UNION {[1..n -> PeakChoices] : n \in 0..MaxLen} :
        \A j, k \in DOMAIN q : j # k => q[j].offset # q[k].offset}

\* one call of mergeCloseHotMoments
Merge ==
    /\ mrg.pc = "ready"
    /\ mrg' = [mrg EXCEPT
                 !.pc = "done",
                 !.merged = MergeCloseHotMoments(mrg.hotMoments, mrg.searchRange)]
    /\ UNCHANGED notMrg

InitMrg ==
    /\ mrg \in [pc : {"ready"}, hotMoments : PeakLists,
                 searchRange : 1..MaxRange, merged : {<<>>}]
    /\ chk = [pc |-> "idle"]
    /\ conc = [pc |-> "idle"]
    /\ pool = [pc |-> "idle"]
    /\ clip = [pc |-> "idle"]
    /\ asr = [pc |-> "idle"]
    /\ api = [pc |-> "idle"]
    /\ probe = [pc |-> "idle"]
    /\ platform = "twitch"
    /\ WatchIdle
    /\ SupIdle
    /\ DetIdle
    /\ IngIdle
    /\ CredIdle
    /\ StoreIdle

NextMrg == Merge

SpecMrg == InitMrg /\ [][NextMrg]_vars

----------------------------------------------------------------------------
(* The transcript chunker *)
(*                                                                         *)
(* A string is the sequence of its bytes; the transcripts are written in   *)
(* two letters, the space and the newline.                                 *)

MaxText == 7

MaxLimit == 4

Letters == {"a", "b"}

Whitespace == {" ", "\n"}

Texts == UNION {[1..n -> Letters \cup Whitespace] : n \in 0..MaxText}

\* strings.TrimSpace
TrimSpace(str) ==
    LET solid == {k \in DOMAIN str : str[k] \notin Whitespace}
    IN  IF solid = {} THEN <<>>
        ELSE SubSeq(str, CHOOSE k \in solid : \A x \in solid : k <= x,
                         CHOOSE k \in solid : \A x \in solid : x <= k)

\* strings.Split(str, "\n\n") from byte i on, cur being the piece begun
RECURSIVE SplitFrom(_, _, _)
SplitFrom(str, i, cur) ==
    IF i > Len(str) THEN <<cur>>
    ELSE IF i < Len(str) /\ str[i] = "\n" /\ str[i + 1] = "\n"
    THEN <<cur>> \o SplitFrom(str, i + 2, <<>>)
    ELSE SplitFrom(str, i + 1, Append(cur, str[i]))

SplitEntries(str) == SplitFrom(str, 1, <<>>)

Flush_Replace(chunks, currentChunk) == <<TrimSpace(currentChunk)>>

\* chunks = append(chunks, strings.TrimSpace(currentChunk))
Flush(chunks, currentChunk) == Append(chunks, TrimSpace(currentChunk))

\* the loop over the entries from entry k on, and the last chunk after it
RECURSIVE ChunkLoop(_, _, _, _, _)
ChunkLoop(entries, maxChars, k, chunks, currentChunk) ==
    IF k > Len(entries)
    THEN (IF TrimSpace(currentChunk) # <<>> THEN Flush(chunks, currentChunk)
          ELSE chunks)
    ELSE LET entry == TrimSpace(entries[k])
         IN  IF entry = <<>>
             THEN ChunkLoop(entries, maxChars, k + 1, chunks, currentChunk)
             ELSE IF /\ currentChunk # <<>>
                     /\ Len(currentChunk) + 2 + Len(entry) > maxChars
             THEN ChunkLoop(entries, maxChars, k + 1,
                            Flush(chunks, currentChunk), entry)
             ELSE ChunkLoop(entries, maxChars, k + 1, chunks,
                            IF currentChunk # <<>>
                            THEN currentChunk \o <<"\n", "\n">> \o entry
                            ELSE entry)

\* chunkText
ChunkText(text, maxChars) ==
    LET t == TrimSpace(text)
    IN  IF t = <<>> THEN <<>>
        ELSE IF Len(t) <= maxChars THEN <<t>>
        ELSE ChunkLoop(SplitEntries(t), maxChars, 1, <<>>, <<>>)

\* one call of chunkText
Chunk ==
    /\ chk.pc = "ready"
    /\ chk' = [chk EXCEPT !.pc = "done",
                          !.chunks = ChunkText(chk.text, chk.maxChars)]
    /\ UNCHANGED notChk

InitChk ==
    /\ chk \in [pc : {"ready"}, text : Texts, maxChars : 1..MaxLimit,
                 chunks : {<<>>}]
    /\ mrg = [pc |-> "idle"]
    /\ conc = [pc |-> "idle"]
    /\ pool = [pc |-> "idle"]
    /\ clip = [pc |-> "idle"]
    /\ asr = [pc |-> "idle"]
    /\ api = [pc |-> "idle"]
    /\ probe = [pc |-> "idle"]
    /\ platform = "twitch"
    /\ WatchIdle
    /\ SupIdle
    /\ DetIdle
    /\ IngIdle
    /\ CredIdle
    /\ StoreIdle

NextChk == Chunk

SpecChk == InitChk /\ [][NextChk]_vars

----------------------------------------------------------------------------
(* Concurrent status passes of the Twitch watcher *)
(*                                                                         *)
(* The monitor loop runs checkAllStreamers periodically; the check-now     *)
(* handler starts another checkAllStreamers in a goroutine of its own.     *)
(* Both call checkStreamerStatus for the same streamer: the probe is made  *)
(* without the lock, the stored status is read and written under it.       *)

MaxEnds == 2

MaxChecks == 4

Passes == {"periodic", "forced"}

IdlePass == [pc |-> "idle", live |-> FALSE, stamp |-> 0]

\* the streamer starts a broadcast
GoLive ==
    /\ conc.pc = "run"
    /\ ~conc.real
    /\ conc.ended < MaxEnds
    /\ conc' = [conc EXCEPT !.real = TRUE]
    /\ UNCHANGED notConc

\* the streamer ends the broadcast
GoOffline ==
    /\ conc.pc = "run"
    /\ conc.real
    /\ conc' = [conc EXCEPT !.real = FALSE, !.ended = @ + 1]
    /\ UNCHANGED notConc

\* CheckStreamStatusByUsername of pass p has answered (an error returns
\* from checkStreamerStatus and leaves everything as it was)
PassProbe(p) ==
    /\ conc.pc = "run"
    /\ conc.pass[p].pc = "idle"
    /\ conc.probes < MaxChecks
    /\ conc' = [conc EXCEPT
                  !.probes = @ + 1,
                  !.pass[p] = [pc |-> "probed", live |-> conc.real,
                               stamp |-> conc.probes + 1]]
    /\ UNCHANGED notConc

\* the locked section of checkStreamerStatus and the decision after it
PassApply(p) ==
    /\ conc.pc = "run"
    /\ conc.pass[p].pc = "probed"
    /\ LET previousIsLive == conc.isLive
           currentIsLive == conc.pass[p].live
       IN  conc' = [conc EXCEPT
                      !.isLive = currentIsLive,
                      !.spawned = IF ~currentIsLive /\ previousIsLive THEN @ + 1 ELSE @,
                      !.stale = @ \/ conc.pass[p].stamp < conc.applied,
                      !.applied = conc.pass[p].stamp,
                      !.pass[p] = IdlePass]
    /\ UNCHANGED notConc

InitConc ==
    /\ conc = [pc |-> "run", real |-> FALSE, ended |-> 0, isLive |-> FALSE,
               spawned |-> 0, probes |-> 0, applied |-> 0, stale |-> FALSE,
               pass |-> [p \in Passes |-> IdlePass]]
    /\ mrg = [pc |-> "idle"]
    /\ chk = [pc |-> "idle"]
    /\ pool = [pc |-> "idle"]
    /\ clip = [pc |-> "idle"]
    /\ asr = [pc |-> "idle"]
    /\ api = [pc |-> "idle"]
    /\ probe = [pc |-> "idle"]
    /\ platform = "twitch"
    /\ WatchIdle
    /\ SupIdle
    /\ DetIdle
    /\ IngIdle
    /\ CredIdle
    /\ StoreIdle

NextConc ==
    \/ GoLive
    \/ GoOffline
    \/ \E p \in Passes : PassProbe(p)
    \/ \E p \in Passes : PassApply(p)

SpecConc == InitConc /\ [][NextConc]_vars

----------------------------------------------------------------------------
(* Chat ingestion: downloadChatComments (Twitch) and DownloadChatsData /    *)
(* GetChatReplayFromContinuation (YouTube), with the caller's file write.   *)
(* The upstream chat is a list of comment offsets served PageSize at a      *)
(* time; the cursor of an edge, and a YouTube continuation, is the number   *)
(* of edges up to and including it (0 stands for the empty string).         *)

MaxOff == 3

MaxEdges == 4

PageSize == 2

MaxRequests == 5

\* the pageCountLimit handed to GetChatReplayFromContinuation
PageCountLimit == 3

\* chat replays in stream order
Chats ==
    {q \in UNION {[1..n -> 0..MaxOff] : n \in 0..MaxEdges} :
        \A k \in 1..(Len(q) - 1) : q[k] <= q[k + 1]}

\* startTime / endTime of the request, -1 for nil
Filters == [start : {-1} \cup 0..MaxOff, stop : {-1} \cup 0..MaxOff]

\* what a page request can meet: a page, a transport error, a non-200
\* status (the rate-limited answer 429 among them), or a body that cannot be
\* decoded (for YouTube this includes the rate-limit interstitial and a page
\* without chat data)
PageOutcomes == {"ok", "neterr", "status", "decode"}

\* the edges of the page that follows the first `from` edges
PageEdges(from) ==
    LET last == IF from + PageSize < Len(chat) THEN from + PageSize ELSE Len(chat)
    IN  [k \in 1..(last - from) |-> from + k]

PageHasNext(from) == from + PageSize < Len(chat)

\* the number of comments before the first one at or after offset o
EdgesBefore(o) == Cardinality({k \in DOMAIN chat : chat[k] < o})

\* where the upstream may start the page it returns for a request: a page
\* requested by offset starts at a chunk boundary at or before the offset;
\* a cursor continues after its edge; what the endpoint returns for the
\* empty cursor is not fixed by the client (nothing, or the chat from its
\* start)
AnswerStarts(request) ==
    IF request.kind = "offset" THEN 0..EdgesBefore(request.val)
    ELSE IF request.val = 0 THEN {0, Len(chat)}
    ELSE {request.val}

\* the request body of this iteration
TwitchRequest ==
    IF ing.isFirstRequest
    THEN [kind |-> "offset", val |-> IF filter.start = -1 THEN 0 ELSE filter.start]
    ELSE [kind |-> "cursor", val |-> ing.cursor]

\* the edge loop: stop at the first edge past endTime, skip the edges before
\* startTime, collect the others and remember the cursor of the last one
\* collected
EdgesHandled(edges) ==
    LET past == {k \in DOMAIN edges : filter.stop # -1 /\ chat[edges[k]] > filter.stop}
    IN  IF past = {} THEN DOMAIN edges
        ELSE {k \in DOMAIN edges : \A x \in past : k < x}

EdgesCollected(edges) ==
    {k \in EdgesHandled(edges) : filter.start = -1 \/ chat[edges[k]] >= filter.start}

RECURSIVE SeqOf(_, _, _)
SeqOf(edges, keep, k) ==
    IF k > Len(edges) THEN <<>>
    ELSE (IF k \in keep THEN <<chat[edges[k]]>> ELSE <<>>) \o SeqOf(edges, keep, k + 1)

IngStart ==
    [pc |-> IF platform = "twitch" THEN "loop" ELSE "watch",
     isFirstRequest |-> TRUE,
     cursor |-> 0,
     hasNextPage |-> TRUE,
     pageCount |-> 1,
     allComments |-> <<>>,
     requests |-> <<>>,
     failed |-> FALSE,
     written |-> FALSE,
     file |-> <<>>]

\* one iteration of the loop of downloadChatComments
TwitchPage(outcome, from) ==
    /\ platform = "twitch"
    /\ ing.pc = "loop"
    /\ ing.hasNextPage
    /\ Len(ing.requests) < MaxRequests
    /\ from \in AnswerStarts(TwitchRequest)
    /\ LET edges == PageEdges(from)
           got == EdgesCollected(edges)
           entry == [kind |-> TwitchRequest.kind, val |-> TwitchRequest.val,
                     last |-> IF outcome = "ok" /\ Len(edges) > 0
                              THEN edges[Len(edges)] ELSE -1,
                     answer |-> outcome]
       IN  ing' =
             IF outcome # "ok"
             THEN [ing EXCEPT !.pc = "err", !.isFirstRequest = FALSE, !.failed = TRUE,
                              !.requests = Append(@, entry)]
             ELSE IF Len(edges) = 0
             THEN [ing EXCEPT !.pc = "return", !.isFirstRequest = FALSE,
                              !.requests = Append(@, entry)]
             ELSE [ing EXCEPT
                     !.isFirstRequest = FALSE,
                     !.requests = Append(@, entry),
                     !.allComments = @ \o SeqOf(edges, got, 1),
                     !.cursor = IF got = {} THEN @ ELSE edges[SetMax(got)],
                     !.hasNextPage = /\ EdgesHandled(edges) = DOMAIN edges
                                     /\ PageHasNext(from)]
    /\ UNCHANGED <<platform, chat, filter>>
    /\ UNCHANGED notIng

\* the request for the watch page in DownloadChatsData
YouTubeWatch(outcome) ==
    /\ platform = "youtube"
    /\ ing.pc = "watch"
    /\ LET entry == [kind |-> "watch", val |-> 0, last |-> -1, answer |-> outcome]
       IN  ing' =
             CASE outcome = "ok" ->
                    [ing EXCEPT !.pc = "loop", !.cursor = 1,
                                !.requests = Append(@, entry)]
               [] outcome = "status" ->
                    \* a status other than 200 is printed and the empty list
                    \* returned without an error
                    [ing EXCEPT !.pc = "return", !.failed = TRUE,
                                !.requests = Append(@, entry)]
               [] OTHER ->
                    [ing EXCEPT !.pc = "err", !.failed = TRUE,
                                !.requests = Append(@, entry)]
    /\ UNCHANGED <<platform, chat, filter>>
    /\ UNCHANGED notIng

\* one iteration of the loop of GetChatReplayFromContinuation; continuation
\* c names the page after the first (c - 1) * PageSize edges
YouTubePage(outcome) ==
    /\ platform = "youtube"
    /\ ing.pc = "loop"
    /\ ing.pageCount < PageCountLimit
    /\ ing.cursor # 0
    /\ Len(ing.requests) < MaxRequests
    /\ LET from == (ing.cursor - 1) * PageSize
           edges == PageEdges(from)
           entry == [kind |-> "continuation", val |-> ing.cursor,
                     last |-> IF outcome = "ok" /\ Len(edges) > 0
                              THEN edges[Len(edges)] ELSE -1,
                     answer |-> outcome]
       IN  ing' =
             CASE outcome = "ok" ->
                    [ing EXCEPT
                       !.requests = Append(@, entry),
                       !.allComments = @ \o SeqOf(edges, DOMAIN edges, 1),
                       !.cursor = IF PageHasNext(from) THEN @ + 1 ELSE 0,
                       !.pageCount = @ + 1]
               [] outcome = "neterr" ->
                    \* `continue`: the same continuation is requested again,
                    \* pageCount as it was
                    [ing EXCEPT !.failed = TRUE, !.requests = Append(@, entry)]
               [] OTHER ->
                    \* `break`: what was collected is returned without an error
                    [ing EXCEPT !.pc = "return", !.failed = TRUE,
                                !.requests = Append(@, entry)]
    /\ UNCHANGED <<platform, chat, filter>>
    /\ UNCHANGED notIng

\* the loop has ended without an error: the caller writes the chat file
IngReturn(writeOk) ==
    /\ \/ ing.pc = "return"
       \/ ing.pc = "loop" /\ platform = "twitch" /\ ~ing.hasNextPage
       \/ /\ ing.pc = "loop"
          /\ platform = "youtube"
          /\ (ing.cursor = 0 \/ ing.pageCount >= PageCountLimit)
    /\ ing' = [ing EXCEPT !.pc = "ok",
                          !.written = writeOk,
                          !.file = IF writeOk THEN ing.allComments ELSE <<>>]
    /\ UNCHANGED <<platform, chat, filter>>
    /\ UNCHANGED notIng

InitIng ==
    /\ platform \in Platforms
    /\ chat \in Chats
    /\ filter \in (IF platform = "twitch" THEN Filters ELSE {[start |-> -1, stop |-> -1]})
    /\ ing = IngStart
    /\ WatchIdle
    /\ SupIdle
    /\ DetIdle
    /\ CredIdle
    /\ StoreIdle
    /\ MediaIdle

NextIng ==
    \/ \E outcome \in PageOutcomes, from \in 0..MaxEdges : TwitchPage(outcome, from)
    \/ \E outcome \in PageOutcomes : YouTubeWatch(outcome)
    \/ \E outcome \in PageOutcomes : YouTubePage(outcome)
    \/ \E writeOk \in BOOLEAN : IngReturn(writeOk)

SpecIng == InitIng /\ [][NextIng]_vars

----------------------------------------------------------------------------
(* YouTube key pool: makeRequestWithRetry with getCurrentAPIKey and         *)
(* rotateAPIKey, one caller.  A key is either accepted or answered with a   *)
(* quota status (403 / 429); a transport error or another status can meet   *)
(* any attempt.                                                              *)

MaxKeys == 3

MaxCalls == 3

AttemptOutcomes == {"200", "quota", "neterr", "other"}

RotateIndex_Stay(idx, n) == idx

\* rotateAPIKey: currentKeyIndex = (currentKeyIndex + 1) % len(APIKeys)
RotateIndex(idx, n) == (idx + 1) % n

\* makeRequestWithRetry entered: maxRetries = len(APIKeys), i = 0
KeysStart(n, accepts, idx, calls) ==
    [pc |-> "retry", n |-> n, accepts |-> accepts, currentKeyIndex |-> idx,
     i |-> 0, attempts |-> <<>>, res |-> "none", calls |-> calls]

\* one iteration of the retry loop, with the return that follows the last one
KeyAttempt(outcome) ==
    /\ keys.pc = "retry"
    /\ keys.i < keys.n
    /\ outcome = "200" => keys.accepts[keys.currentKeyIndex]
    /\ outcome = "quota" => ~keys.accepts[keys.currentKeyIndex]
    /\ LET entry == [key |-> keys.currentKeyIndex, outcome |-> outcome]
           tried == Append(keys.attempts, entry)
       IN  keys' =
             CASE outcome = "200" ->
                    [keys EXCEPT !.pc = "done", !.res = "ok", !.attempts = tried]
               [] outcome = "other" ->
                    [keys EXCEPT !.pc = "done", !.res = "other", !.attempts = tried]
               [] OTHER ->
                    [keys EXCEPT
                       !.currentKeyIndex = RotateIndex(@, keys.n),
                       !.i = @ + 1,
                       !.attempts = tried,
                       !.pc = IF keys.i + 1 < keys.n THEN "retry" ELSE "done",
                       !.res = IF keys.i + 1 < keys.n THEN "none" ELSE "fail"]
    /\ UNCHANGED tok
    /\ UNCHANGED notKeys

\* the caller's next request; the cursor stays where the last one left it
KeyNextRequest ==
    /\ keys.pc = "done"
    /\ keys.calls < MaxCalls
    /\ keys' = KeysStart(keys.n, keys.accepts, keys.currentKeyIndex, keys.calls + 1)
    /\ UNCHANGED tok
    /\ UNCHANGED notKeys

InitKeys ==
    \* InitYouTubeMonitor sets currentKeyIndex to 0
    /\ \E n \in 1..MaxKeys : \E accepts \in [0..(n - 1) -> BOOLEAN] :
           keys = KeysStart(n, accepts, 0, 1)
    /\ tok = [pc |-> "idle"]
    /\ platform = "youtube"
    /\ WatchIdle
    /\ SupIdle
    /\ DetIdle
    /\ IngIdle
    /\ StoreIdle
    /\ MediaIdle

NextKeys ==
    \/ \E outcome \in AttemptOutcomes : KeyAttempt(outcome)
    \/ KeyNextRequest

SpecKeys == InitKeys /\ [][NextKeys]_vars

----------------------------------------------------------------------------
(* Twitch token: ensureValidToken and getAccessToken, called by the watcher *)
(* pass, the check-now pass and the request handlers.  Tokens are numbered  *)
(* in the order the token endpoint issues them; 0 is the empty string.      *)

Callers == {"c1", "c2", "c3"}

\* what getAccessToken can meet: a token response, an error response (a JSON
\* body without access_token and expires_in, whatever its status), or a
\* transport, read or decoding error
TokenOutcomes == {"token", "errbody", "neterr"}

\* a caller about to enter ensureValidToken
CallerStart ==
    [pc |-> "check", token |-> 0, got |-> 0, answer |-> "none", future |-> FALSE]

\* lines 1641-1646: the test under the read lock
TokenCheck(c) ==
    /\ tok.pc = "run"
    /\ tok.caller[c].pc = "check"
    /\ tok' = IF tok.accessToken # 0 /\ tok.valid
              THEN [tok EXCEPT !.caller[c].pc = "done",
                               !.caller[c].got = tok.accessToken,
                               !.caller[c].future = TRUE]
              ELSE [tok EXCEPT !.caller[c].pc = "fetch"]
    /\ UNCHANGED keys
    /\ UNCHANGED notTok

\* getAccessToken, outside any lock
TokenFetch(c, outcome) ==
    /\ tok.pc = "run"
    /\ tok.caller[c].pc = "fetch"
    /\ tok' = CASE outcome = "token" ->
                     [tok EXCEPT !.issued = @ + 1,
                                 !.caller[c].token = tok.issued + 1,
                                 !.caller[c].answer = outcome,
                                 !.caller[c].pc = "store"]
                [] outcome = "errbody" ->
                     \* the status is not looked at and the body decodes:
                     \* AccessToken "" and ExpiresIn 0 are returned, err nil
                     [tok EXCEPT !.caller[c].token = 0,
                                 !.caller[c].answer = outcome,
                                 !.caller[c].pc = "store"]
                [] OTHER ->
                     [tok EXCEPT !.caller[c].answer = outcome,
                                 !.caller[c].pc = "failed"]
    /\ UNCHANGED keys
    /\ UNCHANGED notTok

\* lines 1654-1657: the assignment under the write lock, and the return
TokenStore(c) ==
    /\ tok.pc = "run"
    /\ tok.caller[c].pc = "store"
    /\ tok' = [tok EXCEPT !.accessToken = tok.caller[c].token,
                          \* tokenExpiry = now + expiresIn seconds
                          !.valid = (tok.caller[c].answer = "token"),
                          !.caller[c].pc = "done",
                          !.caller[c].got = tok.caller[c].token,
                          !.caller[c].future = (tok.caller[c].answer = "token")]
    /\ UNCHANGED keys
    /\ UNCHANGED notTok

\* the token is missing (after construction), expired, or valid
InitTok ==
    /\ \E have \in {0, 1}, valid \in BOOLEAN :
           /\ valid => have = 1
           /\ tok = [pc |-> "run", accessToken |-> have, valid |-> valid,
                     issued |-> have, caller |-> [c \in Callers |-> CallerStart]]
    /\ keys = [pc |-> "idle"]
    /\ platform = "twitch"
    /\ WatchIdle
    /\ SupIdle
    /\ DetIdle
    /\ IngIdle
    /\ StoreIdle
    /\ MediaIdle

NextTok ==
    \/ \E c \in Callers : TokenCheck(c)
    \/ \E c \in Callers, outcome \in TokenOutcomes : TokenFetch(c, outcome)
    \/ \E c \in Callers : TokenStore(c)

SpecTok == InitTok /\ [][NextTok]_vars

----------------------------------------------------------------------------
(* Concurrent requests through the YouTube key pool *)
(*                                                                         *)
(* Every task runs makeRequestWithRetry; getCurrentAPIKey and rotateAPIKey *)
(* each hold apiKeyMu for their own body only, and the cursor is shared.   *)

KeyTasks == {"k1", "k2"}

TaskStart == [pc |-> "get", i |-> 0, key |-> 0, tried |-> {}, res |-> "none"]

\* apiKey := ym.getCurrentAPIKey()
PoolGet(t) ==
    /\ pool.pc = "run"
    /\ pool.task[t].pc = "get"
    /\ pool' = [pool EXCEPT !.task[t].pc = "sent",
                            !.task[t].key = pool.currentKeyIndex,
                            !.task[t].tried = @ \cup {pool.currentKeyIndex}]
    /\ UNCHANGED notPool

\* the answer to the request sent with the key read, and what the loop does
\* with it
PoolAnswer(t, outcome) ==
    /\ pool.pc = "run"
    /\ pool.task[t].pc = "sent"
    /\ outcome = "200" => pool.accepts[pool.task[t].key]
    /\ outcome = "quota" => ~pool.accepts[pool.task[t].key]
    /\ LET me == pool.task[t]
       IN  pool' =
             CASE outcome = "200" ->
                    [pool EXCEPT !.task[t].pc = "done", !.task[t].res = "ok"]
               [] outcome = "other" ->
                    [pool EXCEPT !.task[t].pc = "done", !.task[t].res = "other"]
               [] OTHER ->
                    [pool EXCEPT
                       !.currentKeyIndex = RotateIndex(@, pool.n),
                       !.task[t].i = @ + 1,
                       !.task[t].pc = IF me.i + 1 < pool.n THEN "get" ELSE "done",
                       !.task[t].res = IF me.i + 1 < pool.n THEN "none" ELSE "fail"]
    /\ UNCHANGED notPool

InitPool ==
    /\ \E n \in 1..MaxKeys : \E accepts \in [0..(n - 1) -> BOOLEAN] :
           pool = [pc |-> "run", n |-> n, accepts |-> accepts,
                   currentKeyIndex |-> 0,
                   task |-> [t \in KeyTasks |-> TaskStart]]
    /\ mrg = [pc |-> "idle"]
    /\ chk = [pc |-> "idle"]
    /\ conc = [pc |-> "idle"]
    /\ clip = [pc |-> "idle"]
    /\ asr = [pc |-> "idle"]
    /\ api = [pc |-> "idle"]
    /\ probe = [pc |-> "idle"]
    /\ platform = "youtube"
    /\ WatchIdle
    /\ SupIdle
    /\ DetIdle
    /\ IngIdle
    /\ CredIdle
    /\ StoreIdle

NextPool ==
    \/ \E t \in KeyTasks : PoolGet(t)
    \/ \E t \in KeyTasks, outcome \in AttemptOutcomes : PoolAnswer(t, outcome)

SpecPool == InitPool /\ [][NextPool]_vars

----------------------------------------------------------------------------
(* Tracked-streamers store: GetTrackedStreamerData returns the pointer held *)
(* by the cache, so a client's `config` is the cached object itself and an  *)
(* assignment to config.Streamers is an assignment to `roster`.  Clients:   *)
(* the reaper (cleanupUnsubscribedStreamers), subscribe requests            *)
(* (addStreamerToConfig) and the two watchers (loadStreamers, loadChannels  *)
(* and their passes).                                                       *)

RawIds == {"Foo", "foo", "bar"}

\* strings.ToLower
ToLower(id) == IF id = "Foo" THEN "foo" ELSE id

Ids == {ToLower(id) : id \in RawIds}

\* strings.EqualFold
EqualFold(a, b) == ToLower(a) = ToLower(b)

Users == {"u1", "u2"}

\* rosters the store can hold at start: distinct lowercased ids
StartRosters ==
    {q \in UNION {[1..n -> Ids] : n \in 0..Cardinality(Ids)} :
        \A j, k \in DOMAIN q : j # k => q[j] # q[k]}

SeqIds(q) == {q[k] : k \in DOMAIN q}

\* isStreamerSubscribed
IsStreamerSubscribed(config, streamerID) ==
    \E k \in DOMAIN config : EqualFold(config[k], streamerID)

\* cleanupUnsubscribedStreamers up to the loop: the list is read once
ReapStart ==
    /\ cli.pc = "run"
    /\ cli.reaper.pc = "idle"
    /\ cli' = IF Len(roster) = 0
              THEN [cli EXCEPT !.reaper.pc = "done"]
              ELSE [cli EXCEPT !.reaper.pc = "scan", !.reaper.items = roster,
                               !.reaper.i = 1]
    /\ UNCHANGED <<roster, mon>>
    /\ UNCHANGED notStore

\* one iteration: GetStreamerSubscriberCount fails, or answers the count
ReapCount(rpcOk) ==
    /\ cli.pc = "run"
    /\ cli.reaper.pc = "scan"
    /\ LET r == cli.reaper
           id == r.items[r.i]
           keep == ~rpcOk \/ cli.subs[id] > 0
           next == IF r.i < Len(r.items) THEN "scan" ELSE "assign"
       IN  cli' = [cli EXCEPT
                     !.reaper.i = @ + 1,
                     !.reaper.newStreamers = IF keep THEN Append(@, id) ELSE @,
                     !.reaper.removed = IF keep THEN @ ELSE @ \cup {id},
                     !.reaper.pc = next]
    /\ UNCHANGED <<roster, mon>>
    /\ UNCHANGED notStore

\* line 167: config.Streamers = newStreamers, if anything was removed
ReapAssign ==
    /\ cli.pc = "run"
    /\ cli.reaper.pc = "assign"
    /\ IF cli.reaper.removed # {}
       THEN /\ roster' = cli.reaper.newStreamers
            /\ cli' = [cli EXCEPT !.reaper.pc = "update"]
       ELSE /\ roster' = roster
            /\ cli' = [cli EXCEPT !.reaper.pc = "done"]
    /\ UNCHANGED mon
    /\ UNCHANGED notStore

\* line 168: UpdateTrackedStreamerData(config) puts the same pointer back
\* and writes the file; the pass is complete
ReapUpdate ==
    /\ cli.pc = "run"
    /\ cli.reaper.pc = "update"
    /\ cli' = [cli EXCEPT !.reaper.pc = "done"]
    /\ UNCHANGED <<roster, mon>>
    /\ UNCHANGED notStore

\* addStreamerToConfig up to the test: lowercase, read, isStreamerSubscribed
SubCheck(u, rawStreamerID) ==
    /\ cli.pc = "run"
    /\ cli.sub[u].pc = "idle"
    /\ LET streamerID == ToLower(rawStreamerID)
       IN  cli' = IF IsStreamerSubscribed(roster, streamerID)
                  THEN [cli EXCEPT !.sub[u].pc = "done", !.sub[u].id = streamerID]
                  ELSE [cli EXCEPT !.sub[u].pc = "append", !.sub[u].id = streamerID]
    /\ UNCHANGED <<roster, mon>>
    /\ UNCHANGED notStore

\* line 499: config.Streamers = append(config.Streamers, newStreamer)
SubAppend(u) ==
    /\ cli.pc = "run"
    /\ cli.sub[u].pc = "append"
    /\ roster' = Append(roster, cli.sub[u].id)
    /\ cli' = [cli EXCEPT !.sub[u].pc = "update",
                          !.added = @ \cup {cli.sub[u].id}]
    /\ UNCHANGED mon
    /\ UNCHANGED notStore

\* line 502: UpdateTrackedStreamerData(config)
SubUpdate(u) ==
    /\ cli.pc = "run"
    /\ cli.sub[u].pc = "update"
    /\ cli' = [cli EXCEPT !.sub[u].pc = "done"]
    /\ UNCHANGED <<roster, mon>>
    /\ UNCHANGED notStore

\* loadStreamers / loadChannels: the list is replaced; the Twitch watcher
\* adds a status entry for every streamer that has none and drops none
MonReload(p) ==
    /\ mon.pc = "run"
    /\ mon' = [mon EXCEPT
                 ![p].list = roster,
                 ![p].status = IF p = "twitch" THEN @ \cup SeqIds(roster) ELSE @]
    /\ UNCHANGED <<roster, cli>>
    /\ UNCHANGED notStore

\* the probe of one streamer of the watcher's list during a pass; the
\* YouTube watcher creates the status entry at the first probe
MonProbe(p, k) ==
    /\ mon.pc = "run"
    /\ k \in DOMAIN mon[p].list
    /\ LET id == mon[p].list[k]
       IN  mon' = [mon EXCEPT
                     ![p].status = @ \cup {id},
                     ![p].probedAfterReap =
                         IF cli.reaper.pc = "done" THEN @ \cup {id} ELSE @]
    /\ UNCHANGED <<roster, cli>>
    /\ UNCHANGED notStore

\* both watchers have loaded the roster at construction
InitStore ==
    /\ roster \in StartRosters
    /\ mon = [pc |-> "run",
              twitch |-> [list |-> roster, status |-> SeqIds(roster),
                          probedAfterReap |-> {}],
              youtube |-> [list |-> roster, status |-> {},
                           probedAfterReap |-> {}]]
    /\ \E subs \in [Ids -> {0, 1}] :
           cli = [pc |-> "run", subs |-> subs, added |-> {},
                  reaper |-> [pc |-> "idle", items |-> <<>>, i |-> 1,
                              newStreamers |-> <<>>, removed |-> {}],
                  sub |-> [u \in Users |-> [pc |-> "idle", id |-> ""]]]
    /\ platform = "twitch"
    /\ WatchIdle
    /\ SupIdle
    /\ DetIdle
    /\ IngIdle
    /\ CredIdle
    /\ MediaIdle

NextStore ==
    \/ ReapStart
    \/ \E rpcOk \in BOOLEAN : ReapCount(rpcOk)
    \/ ReapAssign
    \/ ReapUpdate
    \/ \E u \in Users, rawStreamerID \in RawIds : SubCheck(u, rawStreamerID)
    \/ \E u \in Users : SubAppend(u)
    \/ \E u \in Users : SubUpdate(u)
    \/ \E p \in Platforms : MonReload(p)
    \/ \E p \in Platforms, k \in 1..Cardinality(RawIds) : MonProbe(p, k)

SpecStore == InitStore /\ [][NextStore]_vars

----------------------------------------------------------------------------
(* Clip extraction for one newly analysed broadcast: the detector call of   *)
(* the video loop, then downloadHotMomentClips over the moments it returned *)
(* with DownloadVOD step by step.  clip.dir holds the extensions of the     *)
(* files in the broadcast's output directory.                               *)

\* the comment lists the broadcast may have: none, one or two hot moments
ClipScenarios ==
    {sc \in Scenarios :
        \/ sc.name \in {"near", "far"}
        \/ sc.name = "single" /\ sc.v = Scale * 100}

\* tempExtensions of cleanTempFiles
TempExtensions == {"ts", "tmp", "part", "download", "mp4", "mp3"}

\* how the part of DownloadVOD up to the video file may end
FetchOutcomes == {"infoerr", "ffmpegerr", "ok"}

\* how the subtitle block of DownloadVOD may end: the audio file cannot be
\* read; BcutASR.Run fails on the upload path, at the task creation, at a
\* result query, with state 3, after 500 polls; or it returns segments
AsrOutcomes ==
    {"readerr", "uploaderr", "taskerr", "queryerr", "failed", "timeout", "done"}

\* how the summary block of downloadHotMomentClips may end
SummaryOutcomes == {"noservice", "openerr", "llmerr", "ok"}

MomentAt_Reversed(hot, i) == hot[Len(hot) + 1 - i]

\* `for i, hotMoment := range hotMoments`: the moment of the i-th iteration
MomentAt(hot, i) == hot[i]

\* cleanTempFiles: every file with a temporary extension is removed
CleanTempFiles(dir) == dir \ TempExtensions

\* `continue`, or the end of the loop body: the next moment, or the return
ClipAdvance(c) ==
    IF c.i < Len(c.hot)
    THEN [c EXCEPT !.pc = "fetch", !.i = c.i + 1, !.srt = FALSE]
    ELSE [c EXCEPT !.pc = "done", !.i = c.i + 1, !.srt = FALSE]

\* downloadHotMomentClips up to the loop, called with the hot moments of the
\* analysis; a failed MkdirAll returns
ClipStart(mkdirOk) ==
    /\ clip.pc = "wait"
    /\ dpc = "done"
    /\ LET hot == [k \in DOMAIN result.hotMoments |-> result.hotMoments[k].offset]
       IN  clip' = IF mkdirOk /\ Len(hot) > 0
                   THEN [clip EXCEPT !.pc = "fetch", !.hot = hot, !.i = 1]
                   ELSE [clip EXCEPT !.pc = "done", !.hot = hot, !.i = 1,
                                     !.looped = mkdirOk]
    /\ UNCHANGED notClip

\* DownloadVOD up to downloadWithFFmpeg.  An error before ffmpeg writes
\* nothing; a failed ffmpeg run may leave a partial video file.  The caller
\* leaves the loop body on the error.
ClipFetch(outcome, left) ==
    /\ clip.pc = "fetch"
    /\ LET c == [clip EXCEPT !.log = Append(@, <<"extract", MomentAt(clip.hot, clip.i)>>)]
       IN  clip' =
             IF outcome = "ok"
             THEN [c EXCEPT !.pc = "audio", !.dir = @ \cup {"mp4"}]
             ELSE ClipAdvance(
                    [c EXCEPT !.dir = IF outcome = "ffmpegerr" /\ left
                                      THEN @ \cup {"mp4"} ELSE @,
                              !.out = Append(@, [clip |-> "failed", asr |-> "none",
                                                 srt |-> FALSE])])
    /\ UNCHANGED notClip

\* extractAudio; without audio the subtitle block is skipped and DownloadVOD
\* returns success
ClipAudio(ok, left) ==
    /\ clip.pc = "audio"
    /\ clip' =
         IF ok
         THEN [clip EXCEPT !.pc = "asr", !.dir = @ \cup {"mp3"}]
         ELSE [clip EXCEPT !.pc = "summary",
                           !.dir = IF left THEN @ \cup {"mp3"} ELSE @,
                           !.out = Append(@, [clip |-> "ok", asr |-> "none",
                                              srt |-> FALSE])]
    /\ UNCHANGED notClip

\* the subtitle block: every error is logged and appended to the message,
\* the response stays Success; the SRT is written after a finished run
ClipAsr(outcome, writeOk) ==
    /\ clip.pc = "asr"
    /\ LET made == outcome = "done" /\ writeOk
       IN  clip' = [clip EXCEPT
                      !.pc = "summary",
                      !.srt = made,
                      !.dir = IF made THEN @ \cup {"srt"} ELSE @,
                      !.log = Append(@, <<"asr", MomentAt(clip.hot, clip.i)>>),
                      !.out = Append(@, [clip |-> "ok", asr |-> outcome,
                                         srt |-> made])]
    /\ UNCHANGED notClip

\* the rest of the loop body after a successful DownloadVOD: with a subtitle
\* path the summary (an SRT that cannot be opened leaves the body), then
\* cleanTempFiles and the 10 s sleep
ClipSummary(outcome) ==
    /\ clip.pc = "summary"
    /\ LET asked == clip.srt /\ outcome \in {"llmerr", "ok"}
           c == [clip EXCEPT
                   !.log = IF asked THEN Append(@, <<"summary", MomentAt(clip.hot, clip.i)>>)
                           ELSE @]
       IN  clip' =
             IF clip.srt /\ outcome = "openerr"
             THEN ClipAdvance(c)
             ELSE ClipAdvance(
                    [c EXCEPT !.dir = CleanTempFiles(@),
                              !.log = @ \o <<<<"sweep">>, <<"sleep10">>>>])
    /\ UNCHANGED notClip

InitClip ==
    /\ scen \in ClipScenarios
    /\ comments = ScenComments(scen)
    /\ params = defaultPeakParams
    /\ dpc = "ready"
    /\ result = EmptyResult
    /\ clip = [pc |-> "wait", hot |-> <<>>, i |-> 1, dir |-> {}, srt |-> FALSE,
               looped |-> TRUE, log |-> <<>>, out |-> <<>>]
    /\ asr = [pc |-> "idle"]
    /\ api = [pc |-> "idle"]
    /\ probe = [pc |-> "idle"]
    /\ AuxIdle
    /\ platform = "twitch"
    /\ WatchIdle
    /\ SupIdle
    /\ IngIdle
    /\ CredIdle
    /\ StoreIdle

NextClip ==
    \/ Detect
    \/ \E mkdirOk \in BOOLEAN : ClipStart(mkdirOk)
    \/ \E outcome \in FetchOutcomes, left \in BOOLEAN : ClipFetch(outcome, left)
    \/ \E ok \in BOOLEAN, left \in BOOLEAN : ClipAudio(ok, left)
    \/ \E outcome \in AsrOutcomes, writeOk \in BOOLEAN : ClipAsr(outcome, writeOk)
    \/ \E outcome \in SummaryOutcomes : ClipSummary(outcome)

SpecClip == InitClip /\ [][NextClip]_vars

----------------------------------------------------------------------------
(* Speech recognition: BcutASR.Run.  The audio is `total` bytes; the       *)
(* service answers resource/create with per_size and one upload URL per    *)
(* part.  asr.sent is the list of requests sent so far, asr.got the answer *)
(* to each.                                                                *)

MaxBytes == 5

MaxPerSize == 2

\* maxRetries of Run
MaxRetries == 500

\* answers to a request of the upload path or to the task creation:
\* status 200 with a usable body; any other status or an unusable body; a
\* transport error
HttpAnswers == {"200", "status", "neterr"}

\* the Etag header values the storage may answer with
Etags == {"e1", "e2"}

\* answers to a result query: state 4, state 3, any other state, or a
\* failed query (transport error, status other than 200, unusable body)
PollAnswers == {"state4", "state3", "other", "error"}

\* the number of upload URLs the service hands out for the file
PartCount(total, perSize) == (total + perSize - 1) \div perSize

PartRange_NoClamp(i, perSize, total) == <<i * perSize, (i + 1) * perSize>>

\* uploadParts: part i is fileBinary[startRange:endRange]
PartRange(i, perSize, total) ==
    <<i * perSize,
      IF (i + 1) * perSize > total THEN total ELSE (i + 1) * perSize>>

PollVerdict_FailedIsPending(answer, polls) ==
    CASE answer = "state4" -> "success"
      [] answer = "error" -> "queryerr"
      [] OTHER -> IF polls = MaxRetries THEN "timeout" ELSE "pending"

\* the loop body of Run after the polls-th query, and the return after the
\* loop
PollVerdict(answer, polls) ==
    CASE answer = "state4" -> "success"
      [] answer = "state3" -> "failed"
      [] answer = "error" -> "queryerr"
      [] OTHER -> IF polls = MaxRetries THEN "timeout" ELSE "pending"

\* a request is sent and answered
Exchange(a, request, answer) ==
    [a EXCEPT !.sent = Append(@, request), !.got = Append(@, answer)]

\* requestUpload
AsrCreate(answer) ==
    /\ asr.pc = "create"
    /\ LET a == Exchange(asr, <<"create", asr.total>>, answer)
       IN  asr' = IF answer = "200"
                  THEN [a EXCEPT !.pc = "parts",
                                 !.clips = PartCount(asr.total, asr.perSize)]
                  ELSE [a EXCEPT !.pc = "end", !.res = "uploaderr"]
    /\ UNCHANGED notAsr

\* one iteration of uploadParts
AsrPut(answer, etag) ==
    /\ asr.pc = "parts"
    /\ LET i == Len(asr.etags)
           a == Exchange(asr, <<"put", i, PartRange(i, asr.perSize, asr.total)>>,
                         answer)
       IN  asr' = IF answer = "200"
                  THEN [a EXCEPT !.etags = Append(@, etag),
                                 !.pc = IF i + 1 < asr.clips THEN "parts"
                                        ELSE "commit"]
                  ELSE [a EXCEPT !.pc = "end", !.res = "uploaderr"]
    /\ UNCHANGED notAsr

\* commitUpload: the etags joined in slice order
AsrCommit(answer) ==
    /\ asr.pc = "commit"
    /\ LET a == Exchange(asr, <<"complete", asr.etags>>, answer)
       IN  asr' = IF answer = "200"
                  THEN [a EXCEPT !.pc = "task"]
                  ELSE [a EXCEPT !.pc = "end", !.res = "uploaderr"]
    /\ UNCHANGED notAsr

\* CreateTask
AsrTask(answer) ==
    /\ asr.pc = "task"
    /\ LET a == Exchange(asr, <<"task">>, answer)
       IN  asr' = IF answer = "200"
                  THEN [a EXCEPT !.pc = "poll"]
                  ELSE [a EXCEPT !.pc = "end", !.res = "taskerr"]
    /\ UNCHANGED notAsr

\* one iteration of the polling loop: sleep, QueryResult, the state test
AsrPoll(answer) ==
    /\ asr.pc = "poll"
    /\ asr.polls < MaxRetries
    /\ LET verdict == PollVerdict(answer, asr.polls + 1)
       IN  asr' = [asr EXCEPT !.polls = @ + 1,
                              !.last = answer,
                              !.pc = IF verdict = "pending" THEN "poll" ELSE "end",
                              !.res = verdict]
    /\ UNCHANGED notAsr

InitAsr ==
    /\ \E total \in 1..MaxBytes, perSize \in 1..MaxPerSize :
         asr = [pc |-> "create", total |-> total, perSize |-> perSize,
                clips |-> 0, etags |-> <<>>, sent |-> <<>>, got |-> <<>>,
                polls |-> 0, last |-> "none", res |-> "pending"]
    /\ clip = [pc |-> "idle"]
    /\ api = [pc |-> "idle"]
    /\ probe = [pc |-> "idle"]
    /\ AuxIdle
    /\ platform = "twitch"
    /\ WatchIdle
    /\ SupIdle
    /\ DetIdle
    /\ IngIdle
    /\ CredIdle
    /\ StoreIdle

NextAsr ==
    \/ \E answer \in HttpAnswers : AsrCreate(answer)
    \/ \E answer \in HttpAnswers, etag \in Etags : AsrPut(answer, etag)
    \/ \E answer \in HttpAnswers : AsrCommit(answer)
    \/ \E answer \in HttpAnswers : AsrTask(answer)
    \/ \E answer \in PollAnswers : AsrPoll(answer)

SpecAsr == InitAsr /\ [][NextAsr]_vars

\* the goroutine that called Run keeps running until Run returns
SpecAsrFair == SpecAsr /\ WF_vars(NextAsr)

----------------------------------------------------------------------------
(* Analysis endpoint: GetAnalysisResult for one video.  `comments` is the  *)
(* video's chat log, `params` the triple of the request; api.files maps    *)
(* the name of each analysis file of the video to the hot moments stored   *)
(* in it.                                                                  *)

\* the triples a request may carry: every field either unset or set
ApiParams ==
    {ps \in ParamChoices :
        /\ ps.windowsLen \in {0, MaxWin}
        /\ ps.thr \in {0, 100}
        /\ ps.searchRange \in {0, MaxRange}}
    \cup {defaultPeakParams}

\* the chat logs of the video: comments at whole seconds
ApiChats == {q \in CommentLists : \A k \in DOMAIN q : q[k] % Scale = 0}

\* analysis_%d_%.2f_%d.json: thr is kept in hundredths, which is what %.2f
\* prints
AnalysisFileName(ps) == <<"analysis", ps.windowsLen, ps.thr, ps.searchRange>>

\* what an analysis run stores as HotMoments
HotMomentsOf(cs, ps) == FindHotCommentsWithParams(cs, ps).hotMoments

\* the HotMoments of the answer come from the default-parameter file when
\* that file exists and is not the target file
ServedFrom(files, ps) ==
    IF /\ AnalysisFileName(defaultPeakParams) # AnalysisFileName(ps)
       /\ AnalysisFileName(defaultPeakParams) \in DOMAIN files
    THEN AnalysisFileName(defaultPeakParams)
    ELSE AnalysisFileName(ps)

\* GetAnalysisResult: the target file is computed and saved when absent
\* (the chat log must exist and be readable; the result is saved only when
\* the chat log carries the video info), then read and answered
ApiGet(readOk, saveOk) ==
    /\ api.pc = "ready"
    /\ LET target == AnalysisFileName(params)
           absent == target \notin DOMAIN api.files
           stored == IF absent /\ api.chat /\ readOk /\ api.info /\ saveOk
                     THEN api.files @@ (target :> HotMomentsOf(comments, params))
                     ELSE api.files
       IN  api' =
             IF absent /\ ~api.chat
             THEN [api EXCEPT !.pc = "done", !.status = 404]
             ELSE IF absent /\ ~readOk
             THEN [api EXCEPT !.pc = "done", !.status = 500]
             ELSE IF target \notin DOMAIN stored
             THEN [api EXCEPT !.pc = "done", !.status = 500]
             ELSE [api EXCEPT !.pc = "done", !.status = 200,
                              !.files = stored,
                              !.body = stored[ServedFrom(stored, params)]]
    /\ UNCHANGED notApi

\* the analysis files present before the request hold what an earlier
\* analysis of the chat log stored under their names
InitApi ==
    /\ scen = [name |-> "small", v |-> 0]
    /\ comments \in ApiChats
    /\ params \in ApiParams
    /\ dpc = "idle"
    /\ result = EmptyResult
    /\ \E present \in SUBSET {params, defaultPeakParams},
          hasChat \in BOOLEAN, hasInfo \in BOOLEAN :
         api = [pc |-> "ready", chat |-> hasChat, info |-> hasInfo,
                had |-> {AnalysisFileName(ps) : ps \in present},
                files |-> [nm \in {AnalysisFileName(ps) : ps \in present} |->
                             HotMomentsOf(comments,
                                 CHOOSE ps \in present : AnalysisFileName(ps) = nm)],
                status |-> 0, body |-> <<>>]
    /\ clip = [pc |-> "idle"]
    /\ asr = [pc |-> "idle"]
    /\ probe = [pc |-> "idle"]
    /\ AuxIdle
    /\ platform = "twitch"
    /\ WatchIdle
    /\ SupIdle
    /\ IngIdle
    /\ CredIdle
    /\ StoreIdle

NextApi == \E readOk \in BOOLEAN, saveOk \in BOOLEAN : ApiGet(readOk, saveOk)

SpecApi == InitApi /\ [][NextApi]_vars

----------------------------------------------------------------------------
(* YouTube live probe: CheckLiveStatusByChannelID, called once per watcher  *)
(* pass for a channel; probe.outs is what the passes so far were told       *)

MaxPasses == 3

\* answers to the search.list request (eventType=live): a failed request,
\* a status other than 200, an undecodable body, no item, a video
SearchAnswers == {"neterr", "status", "decode", "empty", "video"}

\* the liveStreamingDetails of the first item of the videos.list answer
VideoItems ==
    {it \in [kind : {"item"}, details : BOOLEAN, actualStart : BOOLEAN,
             actualEnd : BOOLEAN] :
        ~it.details => (~it.actualStart /\ ~it.actualEnd)}

\* an answer without an item
NoItem(kind) ==
    [kind |-> kind, details |-> FALSE, actualStart |-> FALSE, actualEnd |-> FALSE]

\* answers to the videos.list request
VideoAnswers ==
    {NoItem(kind) : kind \in {"neterr", "status", "decode", "empty"}}
    \cup VideoItems

\* the value returned after the videos.list answer: an error, nil (offline)
\* or a stream record (live)
StreamOf(answer) ==
    IF answer.kind \in {"neterr", "status", "decode"} THEN "error"
    ELSE IF answer.kind = "empty" THEN "offline"
    ELSE IF ~answer.details THEN "offline"
    ELSE "live"

\* the search request of one call
ProbeSearch(answer) ==
    /\ probe.pc = "ready"
    /\ probe.n < MaxPasses
    /\ probe' =
         IF answer = "video"
         THEN [probe EXCEPT !.pc = "video", !.search = answer]
         ELSE [probe EXCEPT !.pc = "ready", !.n = @ + 1, !.search = answer,
                            !.video = NoItem("none"),
                            !.outs = Append(@, IF answer = "empty" THEN "offline"
                                               ELSE "error")]
    /\ UNCHANGED notProbe

\* the videos request of one call and the return
ProbeVideo(answer) ==
    /\ probe.pc = "video"
    /\ probe' = [probe EXCEPT !.pc = "ready", !.n = @ + 1, !.video = answer,
                              !.outs = Append(@, StreamOf(answer))]
    /\ UNCHANGED notProbe

InitProbe ==
    /\ probe = [pc |-> "ready", n |-> 0, search |-> "none",
                video |-> NoItem("none"),
                outs |-> <<>>]
    /\ clip = [pc |-> "idle"]
    /\ asr = [pc |-> "idle"]
    /\ api = [pc |-> "idle"]
    /\ AuxIdle
    /\ platform = "youtube"
    /\ WatchIdle
    /\ SupIdle
    /\ DetIdle
    /\ IngIdle
    /\ CredIdle
    /\ StoreIdle

NextProbe ==
    \/ \E answer \in SearchAnswers : ProbeSearch(answer)
    \/ \E answer \in VideoAnswers : ProbeVideo(answer)

SpecProbe == InitProbe /\ [][NextProbe]_vars

----------------------------------------------------------------------------
(* Live-state watcher *)

\* What the platform does with one probe request:
\*   live     200, a stream record is returned
\*   offline  200, no stream record
\*   neterr   transport/read failure or an undecodable body
\*   httperr  a non-200 answer whose body is a JSON error object
Upstream == {"live", "offline", "neterr", "httperr"}

\* CheckStreamStatusByUsername: transport, read and decode errors are
\* returned; the HTTP status code is not inspected, so a JSON error body
\* decodes to an empty data list and is reported as (nil, nil).
TwitchProbe(u) ==
    IF u = "neterr" THEN "error"
    ELSE IF u = "live" THEN "live"
    ELSE "offline"

\* CheckLiveStatusByChannelID: makeRequestWithRetry errors and every
\* non-200 status are returned as errors.
YouTubeProbe(u) ==
    IF u \in {"neterr", "httperr"} THEN "error"
    ELSE u

ProbeResult(p, u) == IF p = "twitch" THEN TwitchProbe(u) ELSE YouTubeProbe(u)

\* the previous status read before the update: an absent entry counts as
\* not live (Twitch creates the entry with isLive false, YouTube tests existed)
PreviousIsLive(ex, live) == ex /\ live

ShouldSpawn_AnyOffline(previousIsLive, currentIsLive) == ~currentIsLive

\* the supervisor goroutine is started on an offline result whose previous
\* stored status was live
ShouldSpawn(previousIsLive, currentIsLive) == previousIsLive /\ ~currentIsLive

InitWatch ==
    /\ platform \in Platforms
    /\ wpc = "sleep"
    /\ widx = 1
    \* loadStreamers creates an entry {isLive: false} for every streamer;
    \* the YouTube channelStatus map starts empty
    /\ exists = [s \in Streamers |-> platform = "twitch"]
    /\ isLive = [s \in Streamers |-> FALSE]
    /\ upstream = [s \in Streamers |-> <<>>]
    /\ emits = [s \in Streamers |-> <<>>]
    /\ SupIdle
    /\ DetIdle
    /\ IngIdle
    /\ CredIdle
    /\ StoreIdle
    /\ MediaIdle

\* checkAllStreamers / checkAllChannels up to the loop: the Twitch pass
\* returns at once when ensureValidToken fails
StartPass(tokenOk) ==
    /\ wpc = "sleep"
    /\ \E s \in Streamers : Len(upstream[s]) < MaxProbes
    /\ IF platform = "twitch" /\ ~tokenOk
       THEN UNCHANGED <<wpc, widx>>
       ELSE /\ wpc' = "pass"
            /\ widx' = 1
    /\ UNCHANGED <<platform, isLive, exists, upstream, emits>>
    /\ UNCHANGED notWatch

\* one iteration of the pass loop: checkStreamerStatus / checkChannelStatus
\* for the streamer at widx, then the loop moves on
CheckStreamer(u) ==
    /\ wpc = "pass"
    /\ widx <= Len(Roster)
    /\ LET s == Roster[widx]
           r == ProbeResult(platform, u)
           prev == PreviousIsLive(exists[s], isLive[s])
           curr == (r = "live")
       IN  /\ Len(upstream[s]) < MaxProbes
           /\ upstream' = [upstream EXCEPT ![s] = Append(@, u)]
           /\ IF r = "error"
              THEN /\ emits' = [emits EXCEPT ![s] = Append(@, FALSE)]
                   /\ UNCHANGED <<isLive, exists>>
              ELSE /\ exists' = [exists EXCEPT ![s] = TRUE]
                   /\ isLive' = [isLive EXCEPT ![s] = curr]
                   /\ emits' = [emits EXCEPT ![s] =
                                   Append(@, ShouldSpawn(prev, curr))]
    /\ widx' = widx + 1
    /\ wpc' = IF widx + 1 > Len(Roster) THEN "sleep" ELSE "pass"
    /\ UNCHANGED platform
    /\ UNCHANGED notWatch

NextWatch ==
    \/ \E ok \in BOOLEAN : StartPass(ok)
    \/ \E u \in Upstream : CheckStreamer(u)

SpecWatch == InitWatch /\ [][NextWatch]_vars

----------------------------------------------------------------------------
(* Watcher properties *)

\* what the probe function returned for each answer of the platform
Reported(s) == [k \in 1..Len(upstream[s]) |-> ProbeResult(platform, upstream[s][k])]

\* the answer of the latest probe before probe k that the platform did not
\* fail ("none" when there is no such probe)
RECURSIVE LastAnswer(_, _)
LastAnswer(s, k) ==
    IF k <= 1 THEN "none"
    ELSE IF upstream[s][k - 1] \in {"live", "offline"} THEN upstream[s][k - 1]
    ELSE LastAnswer(s, k - 1)

\* C1: a supervisor task is spawned on a probe iff the stored isLive was
\* true and the probe reports offline; the reported sequence
\* live, live, offline, offline spawns exactly one task, on the third probe.
C1_EdgeRule ==
    /\ [][\A s \in Streamers :
            Len(emits'[s]) = Len(emits[s]) + 1 =>
                (emits'[s][Len(emits'[s])] <=>
                    /\ exists[s] /\ isLive[s]
                    /\ Reported(s)'[Len(upstream'[s])] = "offline")]_vars
    /\ [](\A s \in Streamers :
            /\ Len(emits[s]) = Len(upstream[s])
            /\ (Len(emits[s]) >= 1 => ~emits[s][1])
            /\ (Reported(s) = <<"live", "live", "offline", "offline">>
                    => emits[s] = <<FALSE, FALSE, TRUE, FALSE>>)
            /\ \A k \in 2..Len(emits[s]) :
                   Reported(s)[k - 1] = Reported(s)[k] => ~emits[s][k])

C1_Witness ==
    \E s \in Streamers :
        /\ Reported(s) = <<"live", "live", "offline", "offline">>
        /\ emits[s] = <<FALSE, FALSE, TRUE, FALSE>>

\* C4: a failed probe leaves the stored isLive unchanged and the pass goes
\* on, so a task is spawned exactly at the first offline answer that follows
\* a live answer, whatever failures lie in between.
C4_FailedProbeKeepsPrev ==
    \A s \in Streamers :
        /\ isLive[s] <=> (LastAnswer(s, Len(upstream[s]) + 1) = "live")
        /\ \A k \in 1..Len(emits[s]) :
               emits[s][k] <=>
                   (upstream[s][k] = "offline" /\ LastAnswer(s, k) = "live")

----------------------------------------------------------------------------
(* Supervisor properties *)

\* C2: exactly once per broadcast: under any interleaving of the supervisor
\* tasks of a streamer, each video id is ingested at most once and
\* ./chat_logs holds at most one chat file for it.
C2_ExactlyOncePerBroadcast ==
    \A v \in Vids :
        /\ ingested[v] <= 1
        /\ Cardinality({f \in chatFiles : f.vid = v}) <= 1

\* C3: a supervisor run that finds every listed broadcast already processed
\* writes no file and makes no outbound call besides the recent-VOD listing.
C3_RerunIsNoop ==
    \A t \in Tasks :
        (task[t].seen >= 1 /\ task[t].allProcessed) =>
            /\ task[t].calls \subseteq {"list"}
            /\ ~task[t].wrote
            /\ task[t].fresh = <<>>

C3_Witness ==
    \E t \in Tasks :
        /\ task[t].pc = "done"
        /\ task[t].seen = Len(task[t].vids)
        /\ task[t].seen >= 1
        /\ task[t].allProcessed
        /\ \A k \in 1..Len(task[t].vids) : HasChatFile(task[t].vids[k])
        /\ task[t].calls = {"list"}

----------------------------------------------------------------------------
(* Detector properties *)

Done == dpc = "done"

Moments == result.hotMoments

\* the parameters the call works with, and the length of its time series
Effective == WithDefaults(params)

Seconds == IF Len(comments) = 0 THEN 0 ELSE TotalSeconds(comments)

\* the indices the peak pass marked
Peaks == {i \in 0..(Seconds - 1) : result.isPeak[i]}

\* the largest density within range seconds of index i (densities are never
\* negative, so the zero padding cannot exceed it)
RangeMax(i, range) ==
    SetMax({result.density[j] : j \in {x \in 0..(Seconds - 1) :
                                          x >= i - range /\ x <= i + range}})

Threshold == ThrDensity(result.density, Seconds, Effective.thr)

\* C5: any two distinct hot moments the detector returns have offsets more
\* than searchRange seconds apart, for every comment list and parameters.
C5_MomentsApart ==
    Done => \A a, b \in DOMAIN Moments :
                a < b => Moments[b].offset - Moments[a].offset > Effective.searchRange

\* two moments returned, and the merge pass dropped a marked peak
C5_Witness ==
    /\ Done
    /\ Len(Moments) >= 2
    /\ Cardinality(Peaks) > Len(Moments)

Single100 == scen = [name |-> "single", v |-> 100 * Scale]

\* C6 as stated (scenario S2): one comment at offset 100.0 and the default
\* parameters give no hot moment.
C6_SingleCommentNoMoment == (Single100 /\ Done) => Len(Moments) = 0

\* C6 amended: one comment at offset 100.0 and the default parameters give
\* exactly one hot moment, at offset 0 with score 1.
C6_SingleCommentOneMoment ==
    (Single100 /\ Done) => Moments = <<[offset |-> 0, score |-> 1]>>

\* the call on the single comment at 100.0 has returned, every second of the
\* 101 being a marked peak
C6_Witness ==
    /\ Single100
    /\ Done
    /\ Peaks = 0..100
    /\ Len(Moments) = 1

\* C8 (scenario S4): two 500-comment bursts centred at 1000 and 1100 with
\* the default parameters give exactly one hot moment.
C8_NearBurstsOneMoment == (scen.name = "near" /\ Done) => Len(Moments) = 1

\* the call on the two near bursts has returned one moment out of many peaks
C8_Witness ==
    /\ scen.name = "near"
    /\ Done
    /\ Cardinality(Peaks) > 1
    /\ Len(Moments) = 1

Ascending == \A k \in 1..(Len(Moments) - 1) : Moments[k].offset < Moments[k + 1].offset

\* C9 as stated (scenario S5): two 500-comment bursts centred at 1000 and
\* 1400 give exactly two hot moments, each within 5 seconds of a burst
\* centre, in ascending offset order.
C9_FarBurstsAtCentres ==
    (scen.name = "far" /\ Done) =>
        /\ Len(Moments) = 2
        /\ Ascending
        /\ \A k \in DOMAIN Moments : \E c \in {1000, 1400} :
               Moments[k].offset >= c - 5 /\ Moments[k].offset <= c + 5

\* C9 amended: the two bursts give exactly two hot moments in ascending
\* offset order, each at the first second whose window holds the whole of
\* its burst: half a window (210 s) before the end of the burst, 790 and
\* 1190 for point bursts, and never within 5 seconds of a centre.
C9_FarBurstsLeadCentres ==
    (scen.name = "far" /\ Done) =>
        /\ Len(Moments) = 2
        /\ Ascending
        /\ Moments[1].offset = 1000 + scen.v - 210
        /\ Moments[2].offset = 1400 + scen.v - 210

\* the call on the two far bursts has returned two moments of many peaks
C9_Witness ==
    /\ scen.name = "far"
    /\ Done
    /\ Cardinality(Peaks) > 2
    /\ Len(Moments) = 2

InBurst(m) == m.offset >= 3580 /\ m.offset <= 3620

\* C10 as stated (scenario S3): 1000 comments spread over [0, 7200) plus 500
\* comments in [3580, 3620] give exactly one hot moment, inside [3580, 3620].
C10_BurstOneMoment ==
    (scen.name = "background" /\ Done) =>
        Len(Moments) = 1 /\ InBurst(Moments[1])

\* C10 amended: the list gives 30 hot moments: 28 background moments whose
\* score is the threshold density 59, and two moments of the burst's score
\* 559, the first of them some 200 s before the burst interval; at most one
\* moment lies inside [3580, 3620].
C10_BurstAndBackground ==
    (scen.name = "background" /\ Done) =>
        LET top == {k \in DOMAIN Moments : Moments[k].score = 559}
        IN  /\ Len(Moments) = 30
            /\ Cardinality(top) = 2
            /\ \A k \in DOMAIN Moments \ top : Moments[k].score = 59
            /\ \E k \in top : Moments[k].offset < 3580 - 150
            /\ Cardinality({k \in DOMAIN Moments : InBurst(Moments[k])}) <= 1

\* the call on the burst over the background has returned, with background
\* seconds among the moments
C10_Witness ==
    /\ scen.name = "background"
    /\ Done
    /\ \E k \in DOMAIN Moments : Moments[k].score = Threshold /\ ~InBurst(Moments[k])

MaxDensity == SetMax({result.density[i] : i \in 0..(Seconds - 1)})

ThrOne == Len(comments) > 0 /\ Effective.thr = 100

\* C11 as stated: a call with thr = 1.0 on a non-empty comment list takes the
\* maximum density as the threshold and returns no hot moment.
C11_ThrOneNoMoment ==
    (Done /\ ThrOne) => (Threshold = MaxDensity /\ Len(Moments) = 0)

\* C11 amended: a call with thr = 1.0 on a non-empty comment list takes the
\* maximum density as the threshold (index clamped to T-1); the seconds at
\* the maximum pass it, so at least one hot moment is returned, and every
\* returned moment has the maximum density as its score.
C11_ThrOneMaxMoments ==
    (Done /\ ThrOne) =>
        /\ ThrIndex(Seconds, Effective.thr) = Seconds - 1
        /\ Threshold = MaxDensity
        /\ Peaks = {i \in 0..(Seconds - 1) : result.density[i] = MaxDensity}
        /\ Len(Moments) >= 1
        /\ \A k \in DOMAIN Moments : Moments[k].score = MaxDensity

\* a call with thr = 1.0 has returned a moment although some second lies
\* below the maximum density
C11_Witness ==
    /\ Done
    /\ ThrOne
    /\ Len(Moments) >= 1
    /\ \E i \in 0..(Seconds - 1) : result.density[i] < MaxDensity

\* sorted(density)[min(T-1, floor(T * thr))] for the thr the caller supplied
SuppliedThreshold ==
    LET raw == (Seconds * params.thr) \div 100
    IN  SortedAt(result.density, Seconds,
                 IF raw > Seconds - 1 THEN Seconds - 1 ELSE raw)

\* C31: for every non-empty comment list and every supplied thr in [0, 1),
\* thr = 0 included, the threshold the detector uses is
\* sorted(density)[min(T-1, floor(T*thr))]: the marked seconds are those at
\* or above that value that equal their window maximum.
C31_PercentileOfSuppliedThr ==
    (Done /\ Len(comments) > 0 /\ params.thr >= 0 /\ params.thr < 100) =>
        /\ Threshold = SuppliedThreshold
        /\ \A i \in 0..(Seconds - 1) :
               result.isPeak[i] <=>
                   /\ result.density[i] >= SuppliedThreshold
                   /\ result.density[i] = RangeMax(i, Effective.searchRange)

\* ceil(max offset): the least whole number of seconds not below every offset
CeilMaxOffset ==
    LET mx == SetMax({comments[k] : k \in DOMAIN comments})
    IN  CHOOSE n \in 0..mx : n * Scale >= mx /\ (n - 1) * Scale < mx

\* C32: the density signal has exactly T = ceil(max offset) + 1 entries and
\* density[i] is the number of comments whose floored offset j satisfies
\* i - windowsLen/2 <= j <= i - windowsLen/2 + windowsLen (integer division;
\* no comment has a floored offset outside [0, T)).
C32_CentredMovingSum ==
    (Done /\ Len(comments) > 0) =>
        LET w == Effective.windowsLen
        IN  /\ DOMAIN result.density = 0..CeilMaxOffset
            /\ \A i \in 0..CeilMaxOffset :
                   result.density[i] =
                       Cardinality({c \in DOMAIN comments :
                           \E k \in 0..w :
                               comments[c] \div Scale = i - (w \div 2) + k})

\* a call with an odd window has returned a signal in which some second
\* holds several comments and some second's window is cut by the start or
\* by the end of the signal
C32_Witness ==
    /\ Done
    /\ Len(comments) = MaxLen
    /\ Effective.windowsLen = 1
    /\ \E i \in DOMAIN result.density : result.density[i] >= 2
    /\ \E i, j \in DOMAIN result.density : result.density[i] # result.density[j]
    /\ \E c \in DOMAIN comments : comments[c] \div Scale = CeilMaxOffset

\* C33: every hot moment the detector returns carries the density of its
\* second as its score, and that score is at or above the percentile
\* threshold thrDensity of the call.
C33_ScoreAtLeastThreshold ==
    Done => \A k \in DOMAIN Moments :
                /\ Moments[k].score = result.density[Moments[k].offset]
                /\ Moments[k].score >= Threshold

\* a call has returned a moment while some second that equals its window
\* maximum lies below the threshold
C33_Witness ==
    /\ Done
    /\ Len(Moments) >= 1
    /\ \E i \in 0..(Seconds - 1) :
           /\ result.density[i] < Threshold
           /\ result.density[i] = RangeMax(i, Effective.searchRange)

\* every candidate has a returned moment within searchRange of it whose
\* score is at least its own
Dominated ==
    \A c \in DOMAIN mrg.hotMoments : \E k \in DOMAIN mrg.merged :
        /\ mrg.merged[k].offset - mrg.hotMoments[c].offset <= mrg.searchRange
        /\ mrg.hotMoments[c].offset - mrg.merged[k].offset <= mrg.searchRange
        /\ mrg.merged[k].score >= mrg.hotMoments[c].score

C39_SuccessMeansValidToken ==
    tok.pc = "run" =>
        \A c \in Callers :
            /\ tok.caller[c].pc = "done" =>
                   (tok.caller[c].got # 0 /\ tok.caller[c].future)
            /\ tok.caller[c].answer = "errbody" => tok.caller[c].pc = "failed"

----------------------------------------------------------------------------
(* Shared key pool properties *)

\* C38: under every interleaving of the requests sharing the key pool the
\* cursor stays within [0, n), and a request reports "all keys failed" only
\* after it has tried each of the n keys: no key is skipped because another
\* task rotated the cursor.
C38_NoKeySkipped ==
    pool.pc = "run" =>
        /\ pool.currentKeyIndex \in 0..(pool.n - 1)
        /\ \A t \in KeyTasks :
               pool.task[t].res = "fail" => pool.task[t].tried = 0..(pool.n - 1)

----------------------------------------------------------------------------
(* Roster writer properties *)

\* C36: under every interleaving of the roster writers no completed write
\* is lost: a streamer appended by a subscribe request is in the roster
\* unless the reaper has decided to remove that same streamer.
C36_NoLostRosterWrite ==
    cli.pc = "run" =>
        \A id \in cli.added : id \in SeqIds(roster) \/ id \in cli.reaper.removed

----------------------------------------------------------------------------
(* Concurrent pass properties *)

\* C35: under every interleaving of the periodic and the forced pass the
\* watcher has spawned at most one supervisor (BroadcastEnded) per actual
\* live-to-offline transition of the streamer, and no probe result has been
\* applied to the stored status after a result obtained later.
C35_OneEndPerTransition ==
    conc.pc = "run" => (conc.spawned <= conc.ended /\ ~conc.stale)

----------------------------------------------------------------------------
(* Chunker properties *)

\* the bytes of a string that are not whitespace
RECURSIVE Solid(_)
Solid(str) ==
    IF str = <<>> THEN <<>>
    ELSE (IF Head(str) \in Whitespace THEN <<>> ELSE <<Head(str)>>) \o Solid(Tail(str))

\* the non-empty blocks of a string: its entries between blank lines, trimmed
RECURSIVE Trimmed(_)
Trimmed(entries) ==
    IF entries = <<>> THEN <<>>
    ELSE (IF TrimSpace(Head(entries)) = <<>> THEN <<>>
          ELSE <<TrimSpace(Head(entries))>>) \o Trimmed(Tail(entries))

BlocksOf(str) == Trimmed(SplitEntries(str))

\* the blocks of the chunks, chunk after chunk
RECURSIVE ChunkBlocks(_)
ChunkBlocks(chunks) ==
    IF chunks = <<>> THEN <<>>
    ELSE BlocksOf(Head(chunks)) \o ChunkBlocks(Tail(chunks))

RECURSIVE Concat(_)
Concat(chunks) ==
    IF chunks = <<>> THEN <<>> ELSE Head(chunks) \o Concat(Tail(chunks))

\* C34: for every transcript and every limit the chunks hold the blocks of
\* the transcript in their order, each block once: the blocks of the chunks,
\* chunk after chunk, are the blocks of the transcript, every chunk is
\* non-empty and trimmed, and the chunks concatenated are the transcript up
\* to whitespace.
C34_ChunksKeepBlocks ==
    chk.pc = "done" =>
        /\ ChunkBlocks(chk.chunks) = BlocksOf(chk.text)
        /\ Solid(Concat(chk.chunks)) = Solid(chk.text)
        /\ \A k \in DOMAIN chk.chunks :
               chk.chunks[k] # <<>> /\ TrimSpace(chk.chunks[k]) = chk.chunks[k]

\* the chunker has returned several chunks, one of them holding two blocks
C34_Witness ==
    /\ chk.pc = "done"
    /\ Len(chk.chunks) >= 2
    /\ \E k \in DOMAIN chk.chunks : Len(BlocksOf(chk.chunks[k])) >= 2

----------------------------------------------------------------------------
(* Ingestion properties *)

\* C12: a chat file is written only by an ingestion none of whose page
\* requests failed; a failed page request ends the ingestion with an error.
C12_NoPartialFile == ing.pc # "idle" => (ing.written => ~ing.failed)

\* C13: the Twitch ingestor requests each page at most once: only the first
\* request carries contentOffsetSeconds and every later request carries the
\* cursor of the last edge of the page just received.
C13_CursorPagination ==
    (platform = "twitch" /\ ing.pc # "idle") =>
        LET r == ing.requests
        IN  /\ \A k \in DOMAIN r : (r[k].kind = "offset") <=> (k = 1)
            /\ \A k \in DOMAIN r : k > 1 => r[k].val = r[k - 1].last
            /\ \A j, k \in DOMAIN r :
                   j < k => <<r[j].kind, r[j].val>> # <<r[k].kind, r[k].val>>

\* C30: a rate-limited answer to a Twitch chat page request does not fail
\* the ingestion: the same page is requested again, so the ingestion is
\* never ended with an error by a request that was answered with a status
\* other than 200.
C30_RateLimitRetried ==
    (platform = "twitch" /\ ing.pc # "idle") =>
        LET r == ing.requests
        IN  \A k \in DOMAIN r :
                r[k].answer = "status" =>
                    /\ ing.pc # "err"
                    /\ k < Len(r) =>
                           <<r[k + 1].kind, r[k + 1].val>> = <<r[k].kind, r[k].val>>

\* C37: the YouTube chat replay ingestion makes at most pageCountLimit page
\* requests, whatever the upstream answers, transport and read errors
\* included.
C37_PageRequestsBounded ==
    (platform = "youtube" /\ ing.pc # "idle") =>
        Cardinality({k \in DOMAIN ing.requests :
                        ing.requests[k].kind = "continuation"}) <= PageCountLimit

----------------------------------------------------------------------------
(* Credential properties *)

KeysTried == {keys.attempts[k].key : k \in DOMAIN keys.attempts}

\* C14: a request is attempted at most n times; after a 403/429 answer the
\* cursor has advanced by one modulo n and the next attempt uses the next
\* key; the request succeeds if any key of the pool is accepted, and it
\* reports failure only after each of the n keys was tried once.
C14_KeyRotation ==
    keys.pc # "idle" =>
        LET a == keys.attempts
        IN  /\ Len(a) <= keys.n
            /\ \A k \in DOMAIN a :
                   (a[k].outcome = "quota" /\ k < Len(a))
                       => a[k + 1].key = (a[k].key + 1) % keys.n
            /\ (Len(a) > 0 /\ a[Len(a)].outcome = "quota")
                   => keys.currentKeyIndex = (a[Len(a)].key + 1) % keys.n
            /\ keys.res = "fail" =>
                   /\ Len(a) = keys.n
                   /\ KeysTried = 0..(keys.n - 1)
            /\ (/\ keys.pc = "done"
                /\ \A k \in DOMAIN a : a[k].outcome \in {"200", "quota"}
                /\ \E x \in 0..(keys.n - 1) : keys.accepts[x])
                   => keys.res = "ok"

\* a pool of three keys whose first two were refused and whose third was
\* accepted
C14_Witness ==
    /\ keys.pc = "done"
    /\ keys.n = 3
    /\ Len(keys.attempts) = 3
    /\ keys.attempts[1].outcome = "quota"
    /\ keys.attempts[2].outcome = "quota"
    /\ keys.res = "ok"

\* C15: concurrent calls of ensureValidToken on a missing or expired token
\* send exactly one token request upstream, and every caller continues with
\* that one token.
C15_OneTokenRequest ==
    (tok.pc = "run" /\ \A c \in Callers : tok.caller[c].pc \in {"done", "failed"}) =>
        LET fresh == {tok.caller[c].token : c \in Callers} \ {0}
        IN  /\ Cardinality(fresh) <= 1
            /\ \A c, d \in Callers :
                   (tok.caller[c].pc = "done" /\ tok.caller[d].pc = "done")
                       => tok.caller[c].got = tok.caller[d].got

----------------------------------------------------------------------------
(* Watcher and supervisor side by side: one supervisor task runs while the *)
(* watcher makes its next pass                                              *)

MaxClips == 2

\* a supervisor task that has ended on a failed listing
EndedTask == [IdleTask EXCEPT !.pc = "done", !.calls = {"list"}]

\* the answers of the passes made so far: every streamer was offline
QuietPasses == [k \in 1..(MaxProbes - 1) |-> "offline"]

InitLocal ==
    /\ platform \in Platforms
    /\ wpc = "sleep"
    /\ widx = Len(Roster) + 1
    /\ exists = [s \in Streamers |-> TRUE]
    /\ isLive = [s \in Streamers |-> FALSE]
    /\ upstream = [s \in Streamers |-> QuietPasses]
    /\ emits = [s \in Streamers |-> [k \in 1..(MaxProbes - 1) |-> FALSE]]
    /\ clock = 0
    /\ chatFiles = {}
    /\ analysisFiles = {}
    /\ clipFiles = {}
    /\ ingested = [v \in Vids |-> 0]
    /\ task = [t \in Tasks |-> IF t = "t1" THEN IdleTask ELSE EndedTask]
    /\ DetIdle
    /\ IngIdle
    /\ CredIdle
    /\ StoreIdle
    /\ MediaIdle

NextLocal ==
    \/ \E t \in Tasks : Spawn(t)
    \/ \E t \in Tasks, ok \in BOOLEAN, lst \in VodLists : ListVods(t, ok, lst)
    \/ \E t \in Tasks : CheckVod(t)
    \/ \E t \in Tasks, ok \in BOOLEAN : DownloadChat(t, ok)
    \/ \E t \in Tasks, ok \in BOOLEAN, aok \in BOOLEAN, n \in 0..MaxClips :
          SaveChat(t, ok, aok, n)
    \/ \E t \in Tasks, o \in {"fail", "nosrt", "ok"} : ClipMoment(t, o)
    \/ Tick
    \/ \E ok \in BOOLEAN : StartPass(ok)
    \/ \E u \in Upstream : CheckStreamer(u)

SpecLocal == InitLocal /\ [][NextLocal]_vars

----------------------------------------------------------------------------
(* Re-entry *)

\* C19: whenever a supervisor task's presence check skips a broadcast,
\* every stage output of that broadcast exists: its analysis file, and the
\* clip of every hot moment whose extraction some task has failed; that is,
\* a later trigger performs the stages whose files are missing.
C19_ReentryRedoesMissingStages ==
    [][\A t \in Tasks :
          (task[t].pc = "check" /\ task'[t] # task[t] /\ task'[t].pc # "download") =>
              LET vid == task[t].vids[task[t].i]
              IN  /\ vid \in analysisFiles
                  /\ \A t2 \in Tasks, k \in 1..MaxMoments :
                         <<vid, k>> \in task[t2].failed => <<vid, k>> \in clipFiles]_vars

\* C20: errors are local.  A task that has finished its clip phase has
\* attempted every hot moment of every new analysis result, whichever of
\* them failed; a task past its video loop has run the loop body for every
\* listed broadcast, whichever ingestion failed; and when a watcher pass has
\* ended, every streamer of the roster has been probed in it, whichever
\* probe failed.
C20_ErrorsAreLocal ==
    /\ \A t \in Tasks :
           (task[t].pc = "done" /\ platform = "twitch") =>
               \A k \in DOMAIN task[t].fresh :
                   \A j \in 1..task[t].fresh[k][2] :
                       <<task[t].fresh[k][1], j>> \in task[t].tried
    /\ \A t \in Tasks :
           (task[t].pc \in {"clips", "done"} /\ task[t].vids # <<>>) =>
               task[t].seen = Len(task[t].vids)
    /\ wpc = "sleep" =>
           \A s1, s2 \in Streamers : Len(upstream[s1]) = Len(upstream[s2])

\* one task: the ingestion of the first of two broadcasts failed, the second
\* was ingested, the clip of its first moment failed and its second moment
\* was attempted; one pass: the first streamer's probe failed, the pass ended
C20_Witness ==
    /\ platform = "twitch"
    /\ \E t \in Tasks :
           /\ task[t].pc = "done"
           /\ Len(task[t].vids) = 2
           /\ ingested[task[t].vids[1]] = 0
           /\ ingested[task[t].vids[2]] = 1
           /\ <<task[t].vids[2], 1>> \in task[t].failed
           /\ <<task[t].vids[2], 2>> \in task[t].tried
    /\ wpc = "sleep"
    /\ \A s \in Streamers : Len(upstream[s]) = MaxProbes
    /\ upstream[Roster[1]][MaxProbes] = "neterr"

----------------------------------------------------------------------------
(* Pacing and order inside one supervisor task *)

\* the events of kind e in a task's log, as positions
EventsAt(lg, e) == {p \in DOMAIN lg : lg[p][1] = e}

\* some event of kind e lies strictly between positions p and q
Between(lg, e, p, q) == \E r \in EventsAt(lg, e) : p < r /\ r < q

\* C22: within one supervisor task a 10 s sleep lies between any two clip
\* extraction attempts of a broadcast, and a 2 s sleep lies between the
\* processing of any two broadcasts, whether the earlier one succeeded or
\* failed.
C22_SleepsBetweenAttempts ==
    \A t \in Tasks :
        LET lg == task[t].log
        IN  /\ \A p, q \in EventsAt(lg, "clip") :
                   (p < q /\ lg[p][2] = lg[q][2]) => Between(lg, "sleep10", p, q)
            /\ \A p, q \in EventsAt(lg, "ingest") :
                   p < q => Between(lg, "sleep2", p, q)

\* position of a broadcast in the list the platform returned
ListedAt(tk, vid) == CHOOSE k \in DOMAIN tk.vids : tk.vids[k] = vid

\* C24: within one supervisor task the broadcasts are processed one after
\* the other in the listed order: once any stage of a broadcast has started,
\* no stage of an earlier-listed broadcast (ingest, detect, clip extraction,
\* summarization) happens any more.
C24_BroadcastsSequential ==
    \A t \in Tasks :
        LET lg == task[t].log
            staged == {p \in DOMAIN lg : lg[p][1] \in {"ingest", "detect", "clip", "summary"}}
        IN  \A p, q \in staged :
                p < q => ListedAt(task[t], lg[p][2]) <= ListedAt(task[t], lg[q][2])

----------------------------------------------------------------------------
(* Clip extraction properties *)

\* C21: the tail sweep runs after every clip attempt, successful or failed:
\* whenever the clip loop stands before the next moment or has returned, the
\* output directory holds no .ts .tmp .part .download .mp4 .mp3 file; and no
\* step removes an .srt file.
C21_TailSweepAlways ==
    /\ [](clip.pc \in {"fetch", "done"} => clip.dir \cap TempExtensions = {})
    /\ [][(clip.pc # "idle" /\ "srt" \in clip.dir) => "srt" \in clip'.dir]_vars

\* the events of the clip loop so far, by kind, as positions
ClipEvents(e) == {p \in DOMAIN clip.log : clip.log[p][1] = e}

\* C23: within one broadcast the stages run in the order detect, then for
\* each hot moment in ascending offset order clip extraction followed by
\* that moment's summary: no extraction starts before the analysis is
\* complete, extractions follow ascending offsets, and a moment's summary is
\* requested after its own extraction and subtitle step and before the next
\* moment's extraction.
C23_StageOrder ==
    (clip.pc # "idle" /\ clip.log # <<>>) =>
        /\ dpc = "done"
        /\ \A p, q \in ClipEvents("extract") :
               p < q => clip.log[p][2] < clip.log[q][2]
        /\ \A q \in ClipEvents("summary") :
               /\ q >= 3
               /\ clip.log[q - 2] = <<"extract", clip.log[q][2]>>
               /\ clip.log[q - 1] = <<"asr", clip.log[q][2]>>

\* both moments of a two-moment broadcast were extracted and summarised
C23_Witness ==
    /\ clip.pc = "done"
    /\ Len(clip.hot) = 2
    /\ Cardinality(ClipEvents("extract")) = 2
    /\ Cardinality(ClipEvents("summary")) = 2

\* C27: clip extraction tells the two recognition failures apart: after a
\* failure on the upload path DownloadVOD reports the clip as failed; after
\* a timeout of 500 polls the clip is successful and has no SRT.
C27_AsrFailureModes ==
    clip.pc # "idle" =>
        \A k \in DOMAIN clip.out :
            /\ clip.out[k].asr = "uploaderr" => clip.out[k].clip = "failed"
            /\ clip.out[k].asr = "timeout" =>
                   (clip.out[k].clip = "ok" /\ ~clip.out[k].srt)

----------------------------------------------------------------------------
(* Speech recognition properties *)

\* the number of parts of the file
Parts == PartCount(asr.total, asr.perSize)

\* the Etag headers of the part uploads answered so far, in part order
EtagsReturned == asr.etags

\* C25: the upload protocol runs in the order create-resource, PUT part
\* 0..n-1, complete, create-task; part i carries the bytes
\* [i*per_size, min((i+1)*per_size, total)); complete is sent after all n
\* parts returned success and carries the n etags in part order; a
\* non-success answer is the last exchange of the run.
C25_UploadProtocol ==
    asr.pc # "idle" =>
        /\ \A p \in DOMAIN asr.sent :
               LET rq == asr.sent[p]
               IN  /\ rq[1] = "create" <=> p = 1
                   /\ rq[1] = "put" <=> (2 <= p /\ p <= Parts + 1)
                   /\ rq[1] = "put" =>
                          /\ rq[2] = p - 2
                          /\ rq[3][1] = (p - 2) * asr.perSize
                          /\ rq[3][2] = IF (p - 1) * asr.perSize < asr.total
                                        THEN (p - 1) * asr.perSize ELSE asr.total
                          /\ rq[3][1] < rq[3][2]
                   /\ rq[1] = "complete" <=> p = Parts + 2
                   /\ rq[1] = "complete" =>
                          (Len(rq[2]) = Parts /\ rq[2] = EtagsReturned)
                   /\ rq[1] = "task" <=> p = Parts + 3
        /\ \A p \in DOMAIN asr.got : asr.got[p] # "200" => p = Len(asr.sent)
        /\ Len(asr.got) = Len(asr.sent)
        /\ (\E p \in DOMAIN asr.got : asr.got[p] # "200") => asr.pc = "end"

\* a file of three parts, the last one short, went through the whole
\* protocol with differing etags
C25_Witness ==
    /\ asr.pc = "poll"
    /\ Parts = 3
    /\ asr.total < 3 * asr.perSize
    /\ asr.etags[1] # asr.etags[2]
    /\ Len(asr.sent) = 6

\* C26: after the task is created the poller always terminates; it issues
\* at most 500 result queries, returns success at the first query reporting
\* state 4, failure at the first query reporting state 3, keeps polling on
\* any other state and returns a timeout error when 500 queries have passed
\* without state 3 or 4 (a query that fails ends the run with its error).
C26_PollerTerminates ==
    /\ [](asr.pc \in {"poll", "end"} =>
            /\ asr.polls <= MaxRetries
            /\ (asr.pc = "poll" => asr.last \in {"none", "other"})
            /\ ((asr.pc = "end" /\ asr.polls > 0) =>
                   /\ asr.last = "state4" <=> asr.res = "success"
                   /\ asr.last = "state3" <=> asr.res = "failed"
                   /\ asr.last = "other" <=>
                          (asr.res = "timeout" /\ asr.polls = MaxRetries)
                   /\ asr.last = "error" <=> asr.res = "queryerr"))
    /\ (asr.pc = "poll" ~> asr.pc = "end")

\* the poller has given up after 500 queries
C26_Witness == asr.pc = "end" /\ asr.res = "timeout" /\ asr.polls = MaxRetries

----------------------------------------------------------------------------
(* Analysis endpoint properties *)

\* C28: for a video with a chat log and any triple P the endpoint answers
\* 200 with the hot moments of detect(chat, P), read from P's own file or
\* computed and stored under P's file name when that file was absent,
\* whichever other parameter files exist; with neither P's file nor a chat
\* log it answers 404.
C28_AnswerIsForRequestedParams ==
    api.pc = "done" =>
        LET target == AnalysisFileName(params)
        IN  /\ (api.chat /\ api.info /\ api.status # 500) =>
                   /\ api.status = 200
                   /\ api.body = HotMomentsOf(comments, params)
                   /\ target \in DOMAIN api.files
                   /\ api.files[target] = HotMomentsOf(comments, params)
            /\ (~api.chat /\ target \notin api.had) => api.status = 404

----------------------------------------------------------------------------
(* YouTube probe properties *)

\* C29: the YouTube probe reports live iff the live search returned a video
\* whose details carry an actualStartTime and no actualEndTime; a returned
\* video that has an actualEndTime, or no actualStartTime, is reported
\* offline.
C29_LiveIffStartedNotEnded ==
    (probe.pc = "ready" /\ probe.n > 0 /\ probe.outs[probe.n] # "error") =>
        (probe.outs[probe.n] = "live" <=>
            /\ probe.search = "video"
            /\ probe.video \in VideoItems
            /\ probe.video.actualStart
            /\ ~probe.video.actualEnd)

----------------------------------------------------------------------------
(* Store properties *)

\* C16: once a reaper pass is complete, every streamer it found without
\* subscribers is absent from the roster, from both watchers' lists and
\* status maps, and is not probed by a later watcher pass.
C16_ReapedEverywhere ==
    (cli.pc = "run" /\ cli.reaper.pc = "done") =>
        \A id \in cli.reaper.removed \ cli.added :
            /\ id \notin SeqIds(roster)
            /\ \A p \in Platforms :
                   /\ id \notin SeqIds(mon[p].list)
                   /\ id \notin mon[p].status
                   /\ id \notin mon[p].probedAfterReap

\* C17: what readers obtain from the store changes only when a client calls
\* UpdateTrackedStreamerData; changing the value a read returned does not.
C17_SnapshotRead ==
    [][roster' # roster =>
           \/ cli.reaper.pc = "update" /\ cli'.reaper.pc = "done"
           \/ \E u \in Users : cli.sub[u].pc = "update" /\ cli'.sub[u].pc = "done"]_vars

\* C18: the roster never holds two ids that are equal ignoring case, and
\* every id added through subscribe is stored lowercased, concurrent
\* subscribe requests included.
C18_UniqueLowercaseIds ==
    cli.pc = "run" =>
        /\ \A j, k \in DOMAIN roster : j # k => ~EqualFold(roster[j], roster[k])
        /\ \A id \in cli.added : id = ToLower(id)

====
